---- MODULE Spec2Model ----
(***************************************************************************)
(* Model of the crawl-and-scan orchestration engine of ui-bug-detector     *)
(* (src/lib/detector/crawler.ts, which holds Crawler, Detector and the     *)
(* URL utilities).                                                         *)
(*                                                                         *)
(*   Spec       Crawler.crawl / Crawler.cancel as a state machine, split   *)
(*              at the awaits of crawl().                                  *)
(*   ScoreSpec  Detector.calculateScore / addPriorityScores applied to     *)
(*              bounded finding lists.                                     *)
(*   LiveSpec   Spec with the assumption that crawl() keeps running: every  *)
(*              scan and every other await eventually resolves or rejects.  *)
(*   IndexSpec  the same crawler on a site whose sitemap.xml is an index of  *)
(*              3 child sitemaps of 10 pages each.                          *)
(*   DedupSpec  Detector.deduplicateBugs applied to bounded finding lists. *)
(*   UrlSpec    normalizeUrl / shouldCrawl applied to bounded URLs.         *)
(*   ScanSpec   one call of Detector.scan, split at its awaits: browser and  *)
(*              context lifetime, the per-viewport checks and their         *)
(*              try/catch blocks.                                           *)
(*   ScenarioSpec  Detector.calculateScore applied to the scoring scenarios *)
(*              of the specification (no finding, one critical finding,     *)
(*              five major findings).                                       *)
(***************************************************************************)
EXTENDS Integers, Sequences, FiniteSets, TLC

VARIABLES
    \* ---- Crawler.crawl ----
    pc,                \* position of crawl(): "idle", "sitemap", "loop", "sleep", "scanning", "done", "failed"
    aborted,           \* this.abortSignal.signal.aborted
    args,              \* arguments of crawl(): startUrl, maxPages, maxDepth, options
    crawlOptions,      \* merged options (crawler.ts:55-60)
    web,               \* the sitemap documents the site serves, by URL
    sitemapUrls,       \* what parseSitemap resolved to (raw urls)
    visited,           \* Set<string>
    queue,             \* {url, depth}[]
    results,           \* ScanResult[]
    allDiscoveredUrls, \* Set<string>
    batch,             \* batch of the current loop iteration
    batchResults,      \* per batch slot: "pending", "ok", "fail"
    crawlResult,       \* the returned CrawlResult (Null until returned)
    exitReason,        \* how the main loop was left
    enqueued,          \* history: every queue.push, in order
    scheduled,         \* history: every entry handed to Detector.scan, in order
    batchesStarted,    \* history: number of batches handed to Promise.all
    cancelledInFlight, \* history: cancel() was called while a batch was in flight
    fetches,           \* history: every URL handed to fetch(), in order
    progress,          \* history: the status of every reportProgress call, in order
    \* ---- Detector scoring / deduplication ----
    bugs,              \* the finding list the functions are applied to
    score,             \* calculateScore(bugs), NoScore until computed
    prevScore,         \* score of the list before the last finding was added
    prioritized,       \* addPriorityScores(bugs)
    once,              \* deduplicateBugs(bugs)
    twice,             \* deduplicateBugs(deduplicateBugs(bugs))
    stage,             \* which function was applied last
    \* ---- URL utilities ----
    urlIn,             \* the arguments: url, baseOrigin, options
    normOnce,          \* normalizeUrl(url, baseOrigin)
    normTwice,         \* normalizeUrl(normalizeUrl(url, baseOrigin), baseOrigin)
    crawlable,         \* shouldCrawl(url, baseOrigin, options)
    urlStage,          \* which function was applied last
    \* ---- Detector.scan ----
    scan,              \* one call of scan(): position, browser, contexts, findings
    \* ---- parseSitemap, step by step ----
    parser,            \* one call of parseSitemap(): call chain and fetches
    \* ---- one Crawler object used for several crawls ----
    instance           \* this.abortSignal, the controllers, the crawl() calls

crawlVars == <<pc, aborted, args, crawlOptions, sitemapUrls, visited, queue,
               results, allDiscoveredUrls, batch, batchResults, crawlResult,
               exitReason, enqueued, scheduled, batchesStarted, cancelledInFlight,
               web, fetches, progress>>
bugVars == <<bugs, score, prevScore, prioritized, once, twice, stage>>
urlVars == <<urlIn, normOnce, normTwice, crawlable, urlStage>>
scanVars == <<scan>>
parserVars == <<parser>>
instanceVars == <<instance>>
vars == <<crawlVars, bugVars, urlVars, scanVars, parserVars, instanceVars>>
notCrawlVars == <<bugVars, urlVars, scanVars, parserVars, instanceVars>>
notBugVars == <<crawlVars, urlVars, scanVars, parserVars, instanceVars>>
notUrlVars == <<crawlVars, bugVars, scanVars, parserVars, instanceVars>>
notScanVars == <<crawlVars, bugVars, urlVars, parserVars, instanceVars>>
notParserVars == <<crawlVars, bugVars, urlVars, scanVars, instanceVars>>
notInstanceVars == <<crawlVars, bugVars, urlVars, scanVars, parserVars>>


----------------------------------------------------------------------------
(* Bounds *)
MaxPagesBound == 3
MaxDepthBound == 1
MaxSitemap == 2
MaxBugs == 3
MaxPathLen == 3
MaxQuery == 2
MaxViewports == 2
MaxThrows == 2

----------------------------------------------------------------------------
\* the value of score while calculateScore has not run
NoScore == -1

(* Sequence helpers *)
Range(s) == {s[i] : i \in DOMAIN s}
Last(s) == s[Len(s)]
Front(s) == SubSeq(s, 1, Len(s) - 1)
NoDup(s) == \A i, j \in DOMAIN s : i # j => s[i] # s[j]
SeqsUpTo(S, n) == UNION {[1..k -> S] : k \in 0..n}
Min(a, b) == IF a <= b THEN a ELSE b
Max(a, b) == IF a >= b THEN a ELSE b

----------------------------------------------------------------------------
(* URL utilities (crawler.ts:757-887).                                      *)
(* A URL string is modelled by what the WHATWG parser makes of it: whether  *)
(* it parses ("abs" absolute, "rel" relative, "bad" unparsable), its        *)
(* origin, its pathname as the list of segments after each "/" (so "/" is   *)
(* <<EmptySeg>>, "/a/" is <<a, EmptySeg>>), its query as the list of its    *)
(* "&"-separated pairs, and whether it has a fragment.  A pair is a number  *)
(* whose order is the order of its "key,value" string; 0 is an empty pair   *)
(* (as in "?&"), which URLSearchParams drops.                               *)
Seg(stem, ext) == [stem |-> stem, ext |-> ext]
EmptySeg == Seg("", "")
RootPath == <<EmptySeg>>
UrlQ(parse, origin, path, query, hash) ==
    [parse |-> parse, origin |-> origin, path |-> path, query |-> query,
     hash |-> hash]
\* a URL without a query string
Url(parse, origin, path, hash) == UrlQ(parse, origin, path, <<>>, hash)
NoBase == "nobase"
\* the null that normalizeUrl returns on unparsable input
Null == Url("null", "", <<>>, FALSE)
SiteOrigin == "https://site"
OtherOrigin == "https://other"

DEFAULT_CRAWL_OPTIONS ==
    [maxDepth |-> 3, maxPages |-> 50, respectRobotsTxt |-> TRUE,
     includeSitemap |-> TRUE, requestDelayMs |-> 500, concurrency |-> 2]

\* String.prototype.toLowerCase on the spellings the model uses
toLowerCase(s) ==
    CASE s = ".PNG" -> ".png"
      [] s = ".Png" -> ".png"
      [] s = ".Js" -> ".js"
      [] s = ".JS" -> ".js"
      [] s = ".Css" -> ".css"
      [] s = ".CSS" -> ".css"
      [] s = ".PDF" -> ".pdf"
      [] s = ".pDf" -> ".pdf"
      [] s = "API" -> "api"
      [] s = "A" -> "a"
      [] OTHER -> s

\* new URLSearchParams(parsed.search).entries(): the non-empty pairs, in order
RECURSIVE ParamEntries(_)
ParamEntries(query) ==
    IF query = <<>> THEN <<>>
    ELSE IF Head(query) = 0 THEN ParamEntries(Tail(query))
         ELSE <<Head(query)>> \o ParamEntries(Tail(query))

\* Array.prototype.sort on the entries
RECURSIVE SortEntries(_)
SortEntries(entries) ==
    IF entries = <<>> THEN <<>>
    ELSE LET m == CHOOSE x \in Range(entries) : \A y \in Range(entries) : x <= y
             i == CHOOSE k \in DOMAIN entries :
                     entries[k] = m /\ \A j \in 1..(k - 1) : entries[j] # m
         IN <<m>> \o SortEntries(SubSeq(entries, 1, i - 1)
                                 \o SubSeq(entries, i + 1, Len(entries)))

\* parsed.search after the "Sort query parameters" block (crawler.ts:803-807)
SortedSearch(query) ==
    IF Len(query) > 0 THEN SortEntries(ParamEntries(query)) ELSE query

normalizeUrl(url, baseOrigin) ==
    IF url.parse = "bad" \/ (url.parse = "rel" /\ baseOrigin = NoBase)
    THEN Null
    ELSE LET origin == IF url.parse = "rel" THEN baseOrigin ELSE url.origin
             search == SortedSearch(url.query)
             \* normalized.endsWith('/'): the href ends with the pathname only
             \* when no query follows it
             endsWithSlash == search = <<>> /\ Last(url.path) = EmptySeg
             path == IF url.path # RootPath /\ endsWithSlash
                     THEN Front(url.path)
                     ELSE url.path
         IN UrlQ("abs", origin, path, search, FALSE)

isSameOrigin(url, baseOrigin) ==
    CASE url.parse = "bad" -> FALSE
      [] url.parse = "rel" -> TRUE
      [] OTHER -> url.origin = baseOrigin

skipExtensions ==
    {".jpg", ".jpeg", ".png", ".gif", ".webp", ".svg", ".ico",
     ".pdf", ".zip", ".tar", ".gz",
     ".css", ".js", ".json", ".xml",
     ".mp3", ".mp4", ".wav", ".avi", ".mov",
     ".woff", ".woff2", ".ttf", ".eot",
     ".map"}
skipPaths == {"api", "_next", "static", "assets", "cdn-cgi"}

\* variant: the pathname is compared as spelled
LowerPath_AsSpelled(path) == path

\* parsed.pathname.toLowerCase()
LowerPath(path) ==
    [i \in DOMAIN path |-> Seg(toLowerCase(path[i].stem), toLowerCase(path[i].ext))]

\* a RegExp is modelled by the set of (lower-cased) pathnames it matches
PatternTest(pattern, pathname) == pathname \in pattern

shouldCrawl(url, baseOrigin, options) ==
    IF ~isSameOrigin(url, baseOrigin) THEN FALSE
    ELSE LET pathname == LowerPath(url.path) IN
         /\ ~(Last(pathname).ext \in skipExtensions)
         /\ ~(\E i \in 1..(Len(pathname) - 1) :
                 pathname[i].ext = "" /\ pathname[i].stem \in skipPaths)
         /\ ("excludedPathPatterns" \in DOMAIN options =>
                ~(\E k \in DOMAIN options.excludedPathPatterns :
                     PatternTest(options.excludedPathPatterns[k], pathname)))
         /\ (("allowedPathPatterns" \in DOMAIN options
              /\ Len(options.allowedPathPatterns) > 0) =>
                (\E k \in DOMAIN options.allowedPathPatterns :
                     PatternTest(options.allowedPathPatterns[k], pathname)))

----------------------------------------------------------------------------
(* Crawler.crawl (crawler.ts:44-209) *)

\* { ...DEFAULT_CRAWL_OPTIONS, maxPages, maxDepth, ...options }
MergeOptions(maxPages, maxDepth, options) ==
    LET base == [DEFAULT_CRAWL_OPTIONS EXCEPT !.maxPages = maxPages,
                                              !.maxDepth = maxDepth]
    IN [f \in DOMAIN base \cup DOMAIN options |->
            IF f \in DOMAIN options THEN options[f] ELSE base[f]]

\* crawlOptions.concurrency || 2
Concurrency(opts) == IF opts.concurrency = 0 THEN 2 ELSE opts.concurrency

\* variant: the start URL is never found invalid
InvalidStart_Never(normalizedStart) == FALSE

\* if (!normalizedStart) throw new Error(`Invalid start URL: ...`)
InvalidStart(normalizedStart) == normalizedStart = Null

\* `${baseOrigin}/sitemap.xml`
SitemapUrlOf(baseOrigin) == Url("abs", baseOrigin, <<Seg("sitemap", ".xml")>>, FALSE)

(* parseSitemap (crawler.ts:893-948).  The site is a function from the URLs *)
(* it answers with a 2xx response to the document served, a record with     *)
(* kind "index" (the text holds <sitemapindex) or "urlset" and the list of  *)
(* its <loc> values.  Any other URL is answered by an error response or a   *)
(* failing fetch, both of which make parseSitemap return [].                *)
SitemapDoc(kind, locs) == [kind |-> kind, locs |-> locs]
MediaStems == {"image:1", "video:1"}
\* url.includes('/image:') || url.includes('/video:')
IsMediaLoc(url) == \E i \in DOMAIN url.path : url.path[i].stem \in MediaStems

\* variant: only the first two nested sitemaps are read
NestedSlice_FirstTwo(nestedSitemaps) ==
    SubSeq(nestedSitemaps, 1, Min(2, Len(nestedSitemaps)))

\* nestedSitemaps.slice(0, 5)
NestedSlice(nestedSitemaps) ==
    SubSeq(nestedSitemaps, 1, Min(5, Len(nestedSitemaps)))

RECURSIVE parseSitemap(_, _)
RECURSIVE ParseNested(_, _)
\* the for loop over the nested sitemaps (crawler.ts:923-926)
ParseNested(site, nested) ==
    IF nested = <<>> THEN <<>>
    ELSE parseSitemap(site, Head(nested)) \o ParseNested(site, Tail(nested))
parseSitemap(site, sitemapUrl) ==
    IF sitemapUrl \notin DOMAIN site THEN <<>>
    ELSE IF site[sitemapUrl].kind = "index"
         THEN ParseNested(site, NestedSlice(site[sitemapUrl].locs))
         ELSE SelectSeq(site[sitemapUrl].locs, LAMBDA url : ~IsMediaLoc(url))

\* the URLs parseSitemap hands to fetch(), in order
RECURSIVE SitemapFetches(_, _)
RECURSIVE NestedFetches(_, _)
NestedFetches(site, nested) ==
    IF nested = <<>> THEN <<>>
    ELSE SitemapFetches(site, Head(nested)) \o NestedFetches(site, Tail(nested))
SitemapFetches(site, sitemapUrl) ==
    <<sitemapUrl>> \o
    (IF sitemapUrl \in DOMAIN site /\ site[sitemapUrl].kind = "index"
     THEN NestedFetches(site, NestedSlice(site[sitemapUrl].locs))
     ELSE <<>>)

\* the same-origin anchors (a[href]) of the page served at url: the home
\* page links to /a and /b, every other page links back to the home page
PageLinks(url) ==
    IF url.path = RootPath
    THEN <<Url("abs", url.origin, <<Seg("a", "")>>, FALSE),
           Url("abs", url.origin, <<Seg("b", "")>>, FALSE)>>
    ELSE <<Url("abs", url.origin, RootPath, FALSE)>>

\* links: discoveredLinks -- declared empty at crawler.ts:274 and never assigned
discoveredLinks == <<>>

Entry(url, depth) == [url |-> url, depth |-> depth]
Frontier(v, q, d, e) == [visited |-> v, queue |-> q, discovered |-> d, enqueued |-> e]

\* variant: the sitemap loop forgets allDiscoveredUrls.add(normalized)
SitemapStep_NoDiscover(st, url, baseOrigin, opts) ==
    LET normalized == normalizeUrl(url, baseOrigin) IN
    IF normalized # Null /\ normalized \notin st.visited
       /\ shouldCrawl(normalized, baseOrigin, opts)
    THEN Frontier(st.visited \cup {normalized},
                  Append(st.queue, Entry(normalized, 1)),
                  st.discovered,
                  Append(st.enqueued, Entry(normalized, 1)))
    ELSE st

\* variant: the sitemap loop forgets the !visited.has(normalized) test
SitemapStep_NoVisitedCheck(st, url, baseOrigin, opts) ==
    LET normalized == normalizeUrl(url, baseOrigin) IN
    IF normalized # Null /\ shouldCrawl(normalized, baseOrigin, opts)
    THEN Frontier(st.visited \cup {normalized},
                  Append(st.queue, Entry(normalized, 1)),
                  st.discovered \cup {normalized},
                  Append(st.enqueued, Entry(normalized, 1)))
    ELSE st

\* one iteration of the sitemap loop (crawler.ts:90-97)
SitemapStep(st, url, baseOrigin, opts) ==
    LET normalized == normalizeUrl(url, baseOrigin) IN
    IF normalized # Null /\ normalized \notin st.visited
       /\ shouldCrawl(normalized, baseOrigin, opts)
    THEN Frontier(st.visited \cup {normalized},
                  Append(st.queue, Entry(normalized, 1)),
                  st.discovered \cup {normalized},
                  Append(st.enqueued, Entry(normalized, 1)))
    ELSE st

RECURSIVE SeedFromSitemap(_, _, _, _)
SeedFromSitemap(st, urls, baseOrigin, opts) ==
    IF urls = <<>> THEN st
    ELSE SeedFromSitemap(SitemapStep(st, Head(urls), baseOrigin, opts),
                         Tail(urls), baseOrigin, opts)

\* one iteration of the link loop (crawler.ts:165-176)
LinkStep(st, link, depth, baseOrigin, opts) ==
    LET normalizedLink == normalizeUrl(link, baseOrigin) IN
    IF normalizedLink = Null THEN st
    ELSE IF normalizedLink \notin st.visited
            /\ shouldCrawl(normalizedLink, baseOrigin, opts)
         THEN Frontier(st.visited \cup {normalizedLink},
                       Append(st.queue, Entry(normalizedLink, depth + 1)),
                       st.discovered \cup {normalizedLink},
                       Append(st.enqueued, Entry(normalizedLink, depth + 1)))
         ELSE [st EXCEPT !.discovered = @ \cup {normalizedLink}]

RECURSIVE QueueLinks(_, _, _, _, _)
QueueLinks(st, links, depth, baseOrigin, opts) ==
    IF links = <<>> THEN st
    ELSE QueueLinks(LinkStep(st, Head(links), depth, baseOrigin, opts),
                    Tail(links), depth, baseOrigin, opts)

\* variant: the page budget is tested with <= instead of <
LoopCond_OffByOne(q, res, opts) == Len(q) > 0 /\ Len(res) <= opts.maxPages

\* while (queue.length > 0 && results.length < crawlOptions.maxPages)
LoopCond(q, res, opts) == Len(q) > 0 /\ Len(res) < opts.maxPages

\* variant: the loop never looks at the abort signal
AbortCheck_Never(flag) == FALSE

\* if (this.abortSignal?.signal.aborted) break
AbortCheck(flag) == flag

\* variant: the batch is filled without looking at the page budget
BatchHasRoom_NoBudget(b, q, res, opts) ==
    /\ Len(b) < Concurrency(opts)
    /\ Len(q) > 0

\* variant: the batch is filled without looking at the concurrency limit
BatchHasRoom_NoConcurrency(b, q, res, opts) ==
    /\ Len(q) > 0
    /\ Len(res) + Len(b) < opts.maxPages

\* inner while condition (crawler.ts:117)
BatchHasRoom(b, q, res, opts) ==
    /\ Len(b) < Concurrency(opts)
    /\ Len(q) > 0
    /\ Len(res) + Len(b) < opts.maxPages

\* variant: every dequeued item is admitted, whatever its depth
BatchAdmit_AnyDepth(item, opts) == item.depth >= 0

\* if (item && item.depth <= crawlOptions.maxDepth)
BatchAdmit(item, opts) == item.depth <= opts.maxDepth

\* variant: the batch takes the newest entry of the queue (queue.pop())
RECURSIVE BuildBatch_Pop(_, _, _, _)
BuildBatch_Pop(b, q, res, opts) ==
    IF BatchHasRoom(b, q, res, opts)
    THEN BuildBatch_Pop(IF BatchAdmit(Last(q), opts) THEN Append(b, Last(q)) ELSE b,
                        Front(q), res, opts)
    ELSE [batch |-> b, queue |-> q]

\* the batch-building loop (crawler.ts:116-122): queue.shift() while there
\* is room
RECURSIVE BuildBatch(_, _, _, _)
BuildBatch(b, q, res, opts) ==
    IF BatchHasRoom(b, q, res, opts)
    THEN BuildBatch(IF BatchAdmit(Head(q), opts) THEN Append(b, Head(q)) ELSE b,
                    Tail(q), res, opts)
    ELSE [batch |-> b, queue |-> q]

\* the ScanResult of a successful detector.scan(current.url, config)
ScanResultOf(current) == [url |-> current.url, links |-> discoveredLinks]

\* variant: the loop stops at the first failed scan instead of skipping it
RECURSIVE ProcessResults_StopAtFailure(_, _, _, _, _, _, _)
ProcessResults_StopAtFailure(st, res, b, outcome, i, baseOrigin, opts) ==
    IF i > Len(b) \/ outcome[i] # "ok" THEN [frontier |-> st, results |-> res]
    ELSE LET result == ScanResultOf(b[i])
             st2 == IF b[i].depth < opts.maxDepth
                    THEN QueueLinks(st, result.links, b[i].depth, baseOrigin, opts)
                    ELSE st
         IN ProcessResults_StopAtFailure(st2, Append(res, result), b, outcome,
                                         i + 1, baseOrigin, opts)

\* the "Process results" loop (crawler.ts:153-178) over batchResults[i..]
RECURSIVE ProcessResults(_, _, _, _, _, _, _)
ProcessResults(st, res, b, outcome, i, baseOrigin, opts) ==
    IF i > Len(b) THEN [frontier |-> st, results |-> res]
    ELSE IF outcome[i] # "ok"
         THEN ProcessResults(st, res, b, outcome, i + 1, baseOrigin, opts)
         ELSE LET result == ScanResultOf(b[i])
                  st2 == IF b[i].depth < opts.maxDepth
                         THEN QueueLinks(st, result.links, b[i].depth, baseOrigin, opts)
                         ELSE st
              IN ProcessResults(st2, Append(res, result), b, outcome, i + 1,
                                baseOrigin, opts)

\* the returned CrawlResult (crawler.ts:201-208)
MakeCrawlResult(root, res, disc) ==
    [rootUrl |-> root, pagesScanned |-> Len(res),
     totalPagesFound |-> Cardinality(disc), results |-> res]

\* the value of crawlResult while crawl() has not returned
NoResult == MakeCrawlResult(Null, <<>>, {})

----------------------------------------------------------------------------
(* Detector.scan (crawler.ts:265-502).                                      *)
(* The state of one call: pc is the position ("idle", "viewport" at the top *)
(* of the for loop, "opened" once the context exists, "loaded" after        *)
(* navigation, "checks" while the checks run, "returned", "thrown"); vp is  *)
(* the index of the current viewport and check the index of the next check; *)
(* contexts holds the contexts that are open, acquired those ever created;  *)
(* allBugs, ran and threw hold <<viewport, check>> pairs.                   *)
Plugins ==
    <<"layout", "interaction", "dynamic", "forms", "typo", "visual",
      "accessibility", "navigation">>

\* the if around each check (crawler.ts:358-420)
CheckEnabled(config, vp, plugin) ==
    CASE plugin = "layout" -> config.checkLayout
      [] plugin \in {"interaction", "dynamic"} -> config.checkInteraction
      [] plugin = "forms" -> config.checkInteraction /\ vp = 1
      [] plugin = "typo" -> config.checkTypo
      [] plugin = "visual" -> config.checkVisual
      [] plugin \in {"accessibility", "navigation"} ->
            config.checkAccessibility /\ vp = 1

ScanState(config) ==
    [pc |-> "idle", config |-> config, vp |-> 1, check |-> 1,
     browser |-> "none", contexts |-> {}, acquired |-> {},
     allBugs |-> {}, ran |-> {}, threw |-> {}, error |-> "none",
     merged |-> {}]
NoConfig ==
    [checkLayout |-> FALSE, checkInteraction |-> FALSE, checkTypo |-> FALSE,
     checkVisual |-> FALSE, checkAccessibility |-> FALSE, viewports |-> 1]
ScanIdle == scan = ScanState(NoConfig)

\* no parseSitemap call is being followed step by step
ParserState(sitemapUrl) ==
    [pc |-> "idle", call |-> sitemapUrl, stack |-> <<>>, fetching |-> Null,
     oddFetches |-> FALSE]
ParserIdle == parser = ParserState(Null)

\* a Crawler as its constructor leaves it (crawler.ts:28-31): controller 0
\* in this.abortSignal, no crawl() call yet
NewCrawler == [abortSignal |-> 0, aborted |-> {}, runs |-> <<>>]
InstanceIdle == instance = NewCrawler
OthersIdle == ParserIdle /\ InstanceIdle

\* variant: scan() has no finally block
browserClose_Skipped(sc) == sc

\* finally { if (this.browser) await this.browser.close(); } -- closing the
\* browser closes every context that belongs to it
browserClose(sc) ==
    IF sc.browser = "open"
    THEN [sc EXCEPT !.browser = "closed", !.contexts = {}]
    ELSE sc

\* an exception leaves the try block: catch rethrows, finally runs
ScanThrows(sc, cause) ==
    browserClose([sc EXCEPT !.pc = "thrown", !.error = cause])

\* const context = await this.browser.newContext(contextOptions)
NewContext(sc) ==
    [sc EXCEPT !.pc = "opened", !.contexts = @ \cup {sc.vp},
               !.acquired = @ \cup {sc.vp}]

\* the label of the viewport at position vp of DEFAULT_VIEWPORTS
ViewportLabel(vp) ==
    CASE vp = 1 -> "Desktop"
      [] vp = 2 -> "Tablet"
      [] vp = 3 -> "Mobile"
      [] OTHER -> "Viewport" \o ToString(vp)

\* what page.url() returns after the navigation, and the url scan() was given
currentUrl == "currentUrl"
requestedUrl == "url"
NoPageUrl == ""

\* the finding a check returns: the checks set a message and a location
\* description and leave pageUrl undefined
PluginFinding(plugin) ==
    [check |-> plugin,
     code |-> IF plugin = "accessibility" THEN "A11Y_REGION" ELSE plugin,
     message |-> <<"m">>,
     locationDescription |-> <<"l">>,
     pageUrl |-> NoPageUrl]

\* limitAndTagBugs, for one finding (crawler.ts:506-517)
limitAndTagBugs(b, viewport, pageUrl) ==
    [b EXCEPT !.message = <<"[" \o viewport \o "]", " ">> \o @,
              !.locationDescription =
                  IF @ # <<>> THEN @ \o <<" ", "(" \o viewport \o ")">>
                  ELSE <<"Viewport: " \o viewport>>,
              !.pageUrl = pageUrl]

\* groupAccessibilityBugs, for one finding (crawler.ts:523-555): a finding
\* of a grouped code becomes the summary of its group of one
groupAccessibilityBugs(b) ==
    IF b.code \in {"A11Y_REGION", "A11Y_LANDMARK-ONE-MAIN"}
    THEN [b EXCEPT !.message = @ \o <<" ", "(1 occurrences)">>]
    ELSE b

\* what allBugs.push receives from a check (crawler.ts:358-420)
MergedFinding(plugin, vp) ==
    IF plugin = "accessibility"
    THEN groupAccessibilityBugs(PluginFinding(plugin))
    ELSE limitAndTagBugs(PluginFinding(plugin), ViewportLabel(vp), currentUrl)

\* a check resolves and its findings are pushed to allBugs
CheckReturns(sc, plugin) ==
    [sc EXCEPT !.ran = @ \cup {<<sc.vp, plugin>>},
               !.allBugs = @ \cup {<<sc.vp, plugin>>},
               !.merged = @ \cup {MergedFinding(plugin, sc.vp)},
               !.check = @ + 1]

\* variant: the exception of a check is not caught
CheckThrows_Propagates(sc, plugin) ==
    ScanThrows([sc EXCEPT !.ran = @ \cup {<<sc.vp, plugin>>},
                          !.threw = @ \cup {<<sc.vp, plugin>>}], plugin)

\* a check throws: the catch around it logs and the next check runs
CheckThrows(sc, plugin) ==
    [sc EXCEPT !.ran = @ \cup {<<sc.vp, plugin>>},
               !.threw = @ \cup {<<sc.vp, plugin>>},
               !.check = @ + 1]

\* await context.close() at the end of the loop body
CloseContext(sc) ==
    [sc EXCEPT !.contexts = @ \ {sc.vp}, !.vp = @ + 1, !.check = 1,
               !.pc = "viewport"]

\* allBugs.forEach(b => { if (!b.pageUrl) b.pageUrl = url; })
EnsurePageUrl(findings) ==
    {IF b.pageUrl = NoPageUrl THEN [b EXCEPT !.pageUrl = requestedUrl] ELSE b :
        b \in findings}

\* the post-processing and the return statement, followed by the finally
\* block
ScanReturns(sc) ==
    browserClose([sc EXCEPT !.pc = "returned", !.merged = EnsurePageUrl(@)])

----------------------------------------------------------------------------
(* Inputs of a crawl *)
SegA == Seg("a", "")
SegB == Seg("b", "")
StartUrls ==
    {Url("abs", SiteOrigin, RootPath, FALSE),
     Url("abs", SiteOrigin, <<SegA, EmptySeg>>, TRUE),
     Url("bad", "", <<>>, FALSE)}
SitemapPool ==
    {Url("abs", SiteOrigin, <<SegA>>, FALSE),
     Url("abs", SiteOrigin, <<SegA, EmptySeg>>, FALSE),
     Url("abs", SiteOrigin, <<SegB>>, TRUE),
     Url("abs", OtherOrigin, <<SegA>>, FALSE),
     Url("abs", SiteOrigin, <<Seg("img", ".PNG")>>, FALSE),
     Url("rel", "", <<Seg("API", ""), SegB>>, FALSE)}
OptionsInputs ==
    {[respectRobotsTxt |-> TRUE],
     [concurrency |-> 0, requestDelayMs |-> 0],
     [concurrency |-> 1],
     [includeSitemap |-> FALSE],
     [maxPages |-> 1, concurrency |-> 3],
     [excludedPathPatterns |-> <<{<<SegB>>}>>]}

(* The sites a crawl runs on, as far as their sitemaps go *)
SiteSitemap == SitemapUrlOf(SiteOrigin)
\* a site without sitemap.xml
NoSitemapWeb == [u \in {} |-> SitemapDoc("urlset", <<>>)]
\* sitemap.xml is a plain sitemap
UrlsetWeb(locs) == [u \in {SiteSitemap} |-> SitemapDoc("urlset", locs)]
\* sitemap.xml is an index of 3 child sitemaps of 10 page URLs each; the
\* first child lists the home page first
ChildSitemap(c) ==
    Url("abs", SiteOrigin, <<Seg("sitemap-" \o ToString(c), ".xml")>>, FALSE)
IndexPage(c, i) ==
    IF c = 1 /\ i = 1 THEN Url("abs", SiteOrigin, RootPath, FALSE)
    ELSE Url("abs", SiteOrigin,
             <<Seg("c" \o ToString(c), ""), Seg("p" \o ToString(i), "")>>, FALSE)
IndexPages == {IndexPage(c, i) : c \in 1..3, i \in 1..10}
IndexWeb ==
    [u \in {SiteSitemap} \cup {ChildSitemap(c) : c \in 1..3} |->
        IF u = SiteSitemap
        THEN SitemapDoc("index", [c \in 1..3 |-> ChildSitemap(c)])
        ELSE LET c == CHOOSE k \in 1..3 : u = ChildSitemap(k)
             IN SitemapDoc("urlset", [i \in 1..10 |-> IndexPage(c, i)])]
\* sitemap.xml is an index of 6 children: the first and the sixth list one
\* page, the third lists an image entry and a page, the others are missing
WideIndexWeb ==
    [u \in {SiteSitemap} \cup {ChildSitemap(c) : c \in {1, 3, 6}} |->
        IF u = SiteSitemap
        THEN SitemapDoc("index", [c \in 1..6 |-> ChildSitemap(c)])
        ELSE LET c == CHOOSE k \in 1..6 : u = ChildSitemap(k)
             IN IF c = 3
                THEN SitemapDoc("urlset",
                        <<Url("abs", SiteOrigin, <<SegA, Seg("image:1", "")>>, FALSE),
                          Url("abs", SiteOrigin, <<SegB>>, FALSE)>>)
                ELSE SitemapDoc("urlset",
                        <<Url("abs", SiteOrigin, <<Seg("w" \o ToString(c), "")>>, FALSE)>>)]
Webs ==
    {UrlsetWeb(locs) : locs \in SeqsUpTo(SitemapPool, MaxSitemap)}
    \cup {NoSitemapWeb, WideIndexWeb}

CrawlIdle ==
    /\ pc = "idle"
    /\ aborted = FALSE
    /\ crawlOptions = DEFAULT_CRAWL_OPTIONS
    /\ visited = {}
    /\ queue = <<>>
    /\ results = <<>>
    /\ allDiscoveredUrls = {}
    /\ batch = <<>>
    /\ batchResults = <<>>
    /\ crawlResult = NoResult
    /\ exitReason = "none"
    /\ enqueued = <<>>
    /\ scheduled = <<>>
    /\ batchesStarted = 0
    /\ cancelledInFlight = FALSE
    /\ sitemapUrls = <<>>
    /\ fetches = <<>>
    /\ progress = <<>>

BugsIdle ==
    /\ bugs = <<>>
    /\ score = NoScore
    /\ prevScore = NoScore
    /\ prioritized = <<>>
    /\ once = <<>>
    /\ twice = <<>>
    /\ stage = "none"

UrlIdle ==
    /\ urlIn = [url |-> Null, baseOrigin |-> NoBase,
                options |-> [respectRobotsTxt |-> TRUE]]
    /\ normOnce = Null
    /\ normTwice = Null
    /\ crawlable = FALSE
    /\ urlStage = "none"

Init ==
    /\ CrawlIdle
    /\ args \in [startUrl : StartUrls, maxPages : 0..MaxPagesBound,
                 maxDepth : 0..MaxDepthBound, options : OptionsInputs]
    /\ web \in Webs
    /\ BugsIdle
    /\ UrlIdle
    /\ ScanIdle
    /\ OthersIdle

\* crawls of the site whose sitemap.xml is the index of 3 x 10 pages
IndexArgs ==
    [startUrl : StartUrls, maxPages : {1, 2}, maxDepth : {0, 1},
     options : {[respectRobotsTxt |-> TRUE], [includeSitemap |-> FALSE],
                [concurrency |-> 3, requestDelayMs |-> 0]}]
IndexInit ==
    /\ CrawlIdle
    /\ args \in IndexArgs
    /\ web = IndexWeb
    /\ BugsIdle
    /\ UrlIdle
    /\ ScanIdle
    /\ OthersIdle

\* the crawls whose termination is checked: with and without a page budget
\* that the site can fill, with and without sitemap discovery, on a site
\* without sitemap, with a plain sitemap and with a sitemap index
LiveArgs ==
    [startUrl : StartUrls, maxPages : {0, 2}, maxDepth : {0, 1},
     options : {[respectRobotsTxt |-> TRUE], [includeSitemap |-> FALSE],
                [concurrency |-> 1, requestDelayMs |-> 0]}]
LiveWebs ==
    {NoSitemapWeb, WideIndexWeb,
     UrlsetWeb(<<Url("abs", SiteOrigin, <<SegA>>, FALSE),
                 Url("abs", SiteOrigin, <<SegB>>, TRUE)>>)}
LiveInit ==
    /\ CrawlIdle
    /\ args \in LiveArgs
    /\ web \in LiveWebs
    /\ BugsIdle
    /\ UrlIdle
    /\ ScanIdle
    /\ OthersIdle

----------------------------------------------------------------------------
(* Actions of Crawler *)

\* cancel(): this.abortSignal?.abort()
Cancel ==
    /\ ~aborted
    /\ aborted' = TRUE
    /\ cancelledInFlight' = (cancelledInFlight \/ pc = "scanning")
    /\ UNCHANGED <<pc, args, crawlOptions, sitemapUrls, visited, queue, results,
                   allDiscoveredUrls, batch, batchResults, crawlResult, exitReason,
                   enqueued, scheduled, batchesStarted>>
    /\ UNCHANGED <<web, fetches, progress>>
    /\ UNCHANGED notCrawlVars

\* crawl() up to its first await, or up to the throw on an invalid start URL
CrawlStart ==
    /\ pc = "idle"
    /\ LET opts == MergeOptions(args.maxPages, args.maxDepth, args.options)
           normalizedStart == normalizeUrl(args.startUrl, NoBase)
       IN /\ aborted' = FALSE
          /\ cancelledInFlight' = FALSE
          /\ crawlOptions' = opts
          /\ IF InvalidStart(normalizedStart)
             THEN /\ pc' = "failed"
                  /\ UNCHANGED <<visited, queue, allDiscoveredUrls, enqueued>>
             ELSE /\ queue' = <<Entry(normalizedStart, 0)>>
                  /\ enqueued' = <<Entry(normalizedStart, 0)>>
                  /\ visited' = {normalizedStart}
                  /\ allDiscoveredUrls' = {normalizedStart}
                  /\ pc' = IF opts.includeSitemap THEN "sitemap" ELSE "loop"
          /\ fetches' = IF ~InvalidStart(normalizedStart) /\ opts.includeSitemap
                        THEN <<SitemapUrlOf(normalizedStart.origin)>>
                        ELSE <<>>
    /\ UNCHANGED <<web, progress>>
    /\ UNCHANGED <<args, sitemapUrls, results, batch, batchResults, crawlResult,
                   exitReason, scheduled, batchesStarted>>
    /\ UNCHANGED notCrawlVars

\* await parseSitemap(sitemapUrl) resolves; the for loop seeds the frontier
SitemapResolved ==
    /\ pc = "sitemap"
    /\ LET baseOrigin == enqueued[1].url.origin
           found == parseSitemap(web, SitemapUrlOf(baseOrigin))
           st == SeedFromSitemap(Frontier(visited, queue, allDiscoveredUrls, enqueued),
                                 found, baseOrigin, crawlOptions)
       IN /\ sitemapUrls' = found
          /\ fetches' = SitemapFetches(web, SitemapUrlOf(baseOrigin))
          /\ visited' = st.visited
          /\ queue' = st.queue
          /\ allDiscoveredUrls' = st.discovered
          /\ enqueued' = st.enqueued
    /\ pc' = "loop"
    /\ UNCHANGED <<aborted, args, crawlOptions, results, batch,
                   batchResults, crawlResult, exitReason, scheduled, batchesStarted,
                   cancelledInFlight, web, progress>>
    /\ UNCHANGED notCrawlVars

\* variant: the loop is never left, the code after it is never reached
Return_NeverBreaks(reason) ==
    /\ pc' = "loop"
    /\ UNCHANGED <<exitReason, crawlResult, progress>>

\* leaving the main loop: report completion and return the CrawlResult
Return(reason) ==
    /\ pc' = "done"
    /\ exitReason' = reason
    /\ crawlResult' = MakeCrawlResult(enqueued[1].url, results, allDiscoveredUrls)
    /\ progress' = Append(progress, "complete")

\* the while condition is false
LoopExhausted ==
    /\ pc = "loop"
    /\ ~LoopCond(queue, results, crawlOptions)
    /\ Return("exhausted")
    /\ UNCHANGED <<aborted, args, crawlOptions, sitemapUrls, visited, queue, results,
                   allDiscoveredUrls, batch, batchResults, enqueued, scheduled,
                   batchesStarted, cancelledInFlight>>
    /\ UNCHANGED <<web, fetches>>
    /\ UNCHANGED notCrawlVars

\* the cancellation check at the top of the loop body breaks
LoopCancelled ==
    /\ pc = "loop"
    /\ LoopCond(queue, results, crawlOptions)
    /\ AbortCheck(aborted)
    /\ Return("cancelled")
    /\ UNCHANGED <<aborted, args, crawlOptions, sitemapUrls, visited, queue, results,
                   allDiscoveredUrls, batch, batchResults, enqueued, scheduled,
                   batchesStarted, cancelledInFlight>>
    /\ UNCHANGED <<web, fetches>>
    /\ UNCHANGED notCrawlVars

\* the batch comes out empty: if (batch.length === 0) break
LoopEmptyBatch ==
    /\ pc = "loop"
    /\ LoopCond(queue, results, crawlOptions)
    /\ ~AbortCheck(aborted)
    /\ LET bb == BuildBatch(<<>>, queue, results, crawlOptions)
       IN /\ bb.batch = <<>>
          /\ queue' = bb.queue
          /\ batch' = bb.batch
    /\ Return("emptybatch")
    /\ UNCHANGED <<aborted, args, crawlOptions, sitemapUrls, visited, results,
                   allDiscoveredUrls, batchResults, enqueued, scheduled,
                   batchesStarted, cancelledInFlight>>
    /\ UNCHANGED <<web, fetches>>
    /\ UNCHANGED notCrawlVars

\* a batch is built and its scans are started (up to await Promise.all)
StartBatch ==
    /\ pc = "loop"
    /\ LoopCond(queue, results, crawlOptions)
    /\ ~AbortCheck(aborted)
    /\ LET bb == BuildBatch(<<>>, queue, results, crawlOptions)
       IN /\ bb.batch # <<>>
          /\ queue' = bb.queue
          /\ batch' = bb.batch
          /\ batchResults' = [i \in DOMAIN bb.batch |-> "pending"]
          /\ scheduled' = scheduled \o bb.batch
    /\ batchesStarted' = batchesStarted + 1
    /\ pc' = "scanning"
    /\ UNCHANGED <<aborted, args, crawlOptions, sitemapUrls, visited, results,
                   allDiscoveredUrls, crawlResult, exitReason, enqueued,
                   cancelledInFlight>>
    /\ progress' = Append(progress, "scanning")
    /\ UNCHANGED <<web, fetches>>
    /\ UNCHANGED notCrawlVars

\* detector.scan(current.url, config) resolves for one slot of the batch
ScanSucceeds ==
    /\ pc = "scanning"
    /\ \E i \in DOMAIN batch :
          /\ batchResults[i] = "pending"
          /\ batchResults' = [batchResults EXCEPT ![i] = "ok"]
    /\ UNCHANGED <<pc, aborted, args, crawlOptions, sitemapUrls, visited, queue,
                   results, allDiscoveredUrls, batch, crawlResult, exitReason,
                   enqueued, scheduled, batchesStarted, cancelledInFlight>>
    /\ UNCHANGED <<web, fetches, progress>>
    /\ UNCHANGED notCrawlVars

\* detector.scan throws for one slot of the batch; the catch absorbs it
ScanFails ==
    /\ pc = "scanning"
    /\ \E i \in DOMAIN batch :
          /\ batchResults[i] = "pending"
          /\ batchResults' = [batchResults EXCEPT ![i] = "fail"]
    /\ UNCHANGED <<pc, aborted, args, crawlOptions, sitemapUrls, visited, queue,
                   results, allDiscoveredUrls, batch, crawlResult, exitReason,
                   enqueued, scheduled, batchesStarted, cancelledInFlight>>
    /\ UNCHANGED <<web, fetches, progress>>
    /\ UNCHANGED notCrawlVars

\* Promise.all resolves; the results are processed and links are queued
ProcessBatch ==
    /\ pc = "scanning"
    /\ \A i \in DOMAIN batch : batchResults[i] # "pending"
    /\ LET out == ProcessResults(Frontier(visited, queue, allDiscoveredUrls, enqueued),
                                 results, batch, batchResults, 1,
                                 enqueued[1].url.origin, crawlOptions)
       IN /\ results' = out.results
          /\ visited' = out.frontier.visited
          /\ queue' = out.frontier.queue
          /\ allDiscoveredUrls' = out.frontier.discovered
          /\ enqueued' = out.frontier.enqueued
          /\ pc' = IF crawlOptions.requestDelayMs > 0 /\ Len(out.frontier.queue) > 0
                   THEN "sleep" ELSE "loop"
    /\ UNCHANGED <<aborted, args, crawlOptions, sitemapUrls, batch, batchResults,
                   crawlResult, exitReason, scheduled, batchesStarted,
                   cancelledInFlight>>
    /\ UNCHANGED <<web, fetches, progress>>
    /\ UNCHANGED notCrawlVars

\* await sleep(crawlOptions.requestDelayMs) resolves
SleepDone ==
    /\ pc = "sleep"
    /\ pc' = "loop"
    /\ UNCHANGED <<aborted, args, crawlOptions, sitemapUrls, visited, queue, results,
                   allDiscoveredUrls, batch, batchResults, crawlResult, exitReason,
                   enqueued, scheduled, batchesStarted, cancelledInFlight>>
    /\ UNCHANGED <<web, fetches, progress>>
    /\ UNCHANGED notCrawlVars

Next ==
    \/ Cancel
    \/ CrawlStart
    \/ SitemapResolved
    \/ LoopExhausted
    \/ LoopCancelled
    \/ LoopEmptyBatch
    \/ StartBatch
    \/ ScanSucceeds
    \/ ScanFails
    \/ ProcessBatch
    \/ SleepDone

Spec == Init /\ [][Next]_vars

\* the steps crawl() takes by itself: every await it waits on resolves or
\* rejects, and the code between two awaits runs to the next one
CrawlStep ==
    \/ CrawlStart
    \/ SitemapResolved
    \/ LoopExhausted
    \/ LoopCancelled
    \/ LoopEmptyBatch
    \/ StartBatch
    \/ ScanSucceeds
    \/ ScanFails
    \/ ProcessBatch
    \/ SleepDone

\* crawl() is called and runs; cancel() may or may not be called
LiveSpec == LiveInit /\ [][Next]_vars /\ WF_vars(CrawlStep)

\* the same crawler on the site with the sitemap index
IndexSpec == IndexInit /\ [][Next]_vars

----------------------------------------------------------------------------
(* Detector: scoring (crawler.ts:627-721).                                  *)
(* A finding is [id, code, severity, message, selector].  Penalties are     *)
(* kept in units of 1/13: the only diminishing factor the code applies is   *)
(* 1 / (1 + 1 * 0.3) = 10/13, so every penalty is a whole number of         *)
(* thirteenths and the arithmetic below is exact.                           *)
Bug(id, code, severity, message, selector) ==
    [id |-> id, code |-> code, severity |-> severity,
     message |-> message, selector |-> selector]

Severities == {"critical", "major", "minor", "optimization"}
PenaltyUnit == 13

\* variant: every severity costs what a major finding costs
basePenalty_Flat(sev) == 6

basePenalty(sev) ==
    CASE sev = "critical" -> 12
      [] sev = "major" -> 6
      [] sev = "minor" -> 2
      [] sev = "optimization" -> 1

maxPenaltyPerType(sev) ==
    CASE sev = "critical" -> 30
      [] sev = "major" -> 20
      [] sev = "minor" -> 10
      [] sev = "optimization" -> 5

globalMaxPenalty == 70

\* basePenalty[bug.severity] * diminishingFactor, in thirteenths, where
\* count = penaltyByCode.has(code) ? 1 : 0 and the factor is 1 / (1 + count * 0.3)
DiminishedPenalty(sev, seenCode) ==
    IF seenCode THEN basePenalty(sev) * 10 ELSE basePenalty(sev) * PenaltyUnit

\* Math.round(x) for x = n / 13 >= 0: floor(x + 1/2)
RoundThirteenths(n) == (2 * n + PenaltyUnit) \div (2 * PenaltyUnit)

\* variant: the penalty is added to 100 instead of subtracted
FinalScore_SignFlipped(totalPenalty) ==
    Max(0, RoundThirteenths(100 * PenaltyUnit
                            + Min(totalPenalty, globalMaxPenalty * PenaltyUnit)))

\* variant: the grand total is subtracted as it is
adjustedPenalty_Uncapped(totalPenalty) == totalPenalty

\* const adjustedPenalty = Math.min(totalPenalty, globalMaxPenalty), in
\* thirteenths
adjustedPenalty(totalPenalty) == Min(totalPenalty, globalMaxPenalty * PenaltyUnit)

\* Math.max(0, Math.round(100 - adjustedPenalty))
FinalScore(totalPenalty) ==
    Max(0, RoundThirteenths(100 * PenaltyUnit - adjustedPenalty(totalPenalty)))

\* the for loop of calculateScore over list[i..], penalties in thirteenths
RECURSIVE PenaltyLoop(_, _, _, _)
PenaltyLoop(list, i, penaltyByCode, totalPenalty) ==
    IF i > Len(list) THEN totalPenalty
    ELSE LET code == list[i].code
             has == code \in DOMAIN penaltyByCode
             currentCodePenalty == IF has THEN penaltyByCode[code] ELSE 0
             maxForType == maxPenaltyPerType(list[i].severity) * PenaltyUnit
         IN IF currentCodePenalty < maxForType
            THEN LET penalty == DiminishedPenalty(list[i].severity, has)
                     actualPenalty == Min(penalty, maxForType - currentCodePenalty)
                     updated == [c \in DOMAIN penaltyByCode \cup {code} |->
                                    IF c = code THEN currentCodePenalty + actualPenalty
                                    ELSE penaltyByCode[c]]
                 IN PenaltyLoop(list, i + 1, updated, totalPenalty + actualPenalty)
            ELSE PenaltyLoop(list, i + 1, penaltyByCode, totalPenalty)

calculateScore(list) ==
    IF Len(list) = 0 THEN 100
    ELSE FinalScore(PenaltyLoop(list, 1, [c \in {} |-> 0], 0))

severityWeight(sev) ==
    CASE sev = "critical" -> 40
      [] sev = "major" -> 25
      [] sev = "minor" -> 10
      [] sev = "optimization" -> 5

\* impactMultiplier[bug.code] || 1.0, in tenths
impactMultiplier(code) ==
    CASE code = "LAYOUT_OVERFLOW" -> 15
      [] code = "VISUAL_OVERLAP" -> 13
      [] code = "A11Y_COLOR-CONTRAST" -> 14
      [] code = "UNCLICKABLE_ELEMENT" -> 18
      [] code = "NAV_BROKEN_LINK" -> 16
      [] code = "NAV_SERVER_ERROR" -> 20
      [] code = "CONSOLE_ERROR" -> 12
      [] code = "MEDIA_BROKEN" -> 14
      [] code = "FORM_MISSING_LABEL" -> 13
      [] OTHER -> 10

\* the largest value Math.round(rawScore * 2) can take: 40 * 2.0 * 2
MaxRawPriority == 160

\* Math.round(baseScore * multiplier * (1 / Math.sqrt(frequency)) * 2):
\* the number of k >= 1 with k - 1/2 <= base * m10 / (5 * sqrt(f)), compared
\* after squaring
RoundedRawPriority(base, m10, frequency) ==
    Cardinality({k \in 1..MaxRawPriority :
                    (2 * k - 1) * (2 * k - 1) * 25 * frequency
                        <= 4 * base * base * m10 * m10})

\* variant: the Math.min(100, ...) cap is missing
PriorityOf_NoCap(base, m10, frequency) ==
    RoundedRawPriority(base, m10, frequency)

\* Math.min(100, Math.round(rawScore * 2))
PriorityOf(base, m10, frequency) ==
    Min(100, RoundedRawPriority(base, m10, frequency))

codeFrequency(list, code) == Cardinality({i \in DOMAIN list : list[i].code = code})

addPriorityScores(list) ==
    [i \in DOMAIN list |->
        [id |-> list[i].id, code |-> list[i].code, severity |-> list[i].severity,
         message |-> list[i].message, selector |-> list[i].selector,
         priorityScore |-> PriorityOf(severityWeight(list[i].severity),
                                      impactMultiplier(list[i].code),
                                      codeFrequency(list, list[i].code))]]

----------------------------------------------------------------------------
(* Detector: deduplication (crawler.ts:607-621).                            *)
(* A message is a sequence of tokens: the viewport tags "[Desktop]",        *)
(* "[Mobile]", "[Tablet]", the token "PAD" standing for PadLen letters x,   *)
(* and single characters.  A selector is a sequence of characters, empty    *)
(* when the finding has none.                                               *)
MessageCoreLen == 50
PadLen == 48

\* bug.message.replace(/\[Desktop\]|\[Mobile\]/g, '')
StripTags(message) ==
    SelectSeq(message, LAMBDA t : t \notin {"[Desktop]", "[Mobile]"})

\* the characters of a token
CharsOfToken(t) ==
    CASE t = "[Tablet]" -> <<"[", "T", "a", "b", "l", "e", "t", "]">>
      [] t = "[Desktop]" -> <<"[", "D", "e", "s", "k", "t", "o", "p", "]">>
      [] t = "[Mobile]" -> <<"[", "M", "o", "b", "i", "l", "e", "]">>
      [] t = "PAD" -> [i \in 1..PadLen |-> "x"]
      [] OTHER -> <<t>>

RECURSIVE CharsOf(_)
CharsOf(message) ==
    IF message = <<>> THEN <<>>
    ELSE CharsOfToken(Head(message)) \o CharsOf(Tail(message))

\* String.prototype.trim
RECURSIVE TrimStart(_)
TrimStart(cs) ==
    IF cs # <<>> /\ Head(cs) = " " THEN TrimStart(Tail(cs)) ELSE cs
RECURSIVE TrimEnd(_)
TrimEnd(cs) ==
    IF cs # <<>> /\ Last(cs) = " " THEN TrimEnd(Front(cs)) ELSE cs
Trim(cs) == TrimEnd(TrimStart(cs))

\* String.prototype.slice(0, n)
SliceTo(cs, n) == SubSeq(cs, 1, Min(n, Len(cs)))

messageCore(message) == SliceTo(Trim(CharsOf(StripTags(message))), MessageCoreLen)

\* `${bug.code}|${messageCore}|${bug.selector || ''}`
DedupKey(bug) == <<bug.code, "|">> \o messageCore(bug.message) \o <<"|">> \o bug.selector

\* the for loop of deduplicateBugs; Map keeps first-insertion order
RECURSIVE DedupLoop(_, _, _, _)
DedupLoop(list, i, seenKeys, out) ==
    IF i > Len(list) THEN out
    ELSE IF DedupKey(list[i]) \in seenKeys
         THEN DedupLoop(list, i + 1, seenKeys, out)
         ELSE DedupLoop(list, i + 1, seenKeys \cup {DedupKey(list[i])},
                        Append(out, list[i]))

\* variant: duplicates are spliced out of the list while it is being walked,
\* so the element after a removed duplicate is skipped unexamined
RECURSIVE SpliceSkipLoop(_, _, _, _)
SpliceSkipLoop(list, i, seenKeys, out) ==
    IF i > Len(list) THEN out
    ELSE IF DedupKey(list[i]) \in seenKeys
         THEN IF i + 1 > Len(list) THEN out
              ELSE SpliceSkipLoop(list, i + 2, seenKeys, Append(out, list[i + 1]))
         ELSE SpliceSkipLoop(list, i + 1, seenKeys \cup {DedupKey(list[i])},
                             Append(out, list[i]))
deduplicateBugs_SpliceSkip(list) == SpliceSkipLoop(list, 1, {}, <<>>)

deduplicateBugs(list) == DedupLoop(list, 1, {}, <<>>)

----------------------------------------------------------------------------
(* Applying the scoring functions to bounded finding lists *)
ScoreCodes == {"NAV_SERVER_ERROR", "CONSOLE_ERROR", "TYPO"}
ScoreKinds == [code : ScoreCodes, severity : Severities]
ScoreFinding(id, kind) == Bug(id, kind.code, kind.severity, <<"a">>, <<>>)
ScoreLists ==
    {[i \in DOMAIN ks |-> ScoreFinding(i, ks[i])] : ks \in SeqsUpTo(ScoreKinds, MaxBugs)}

\* list with x placed at position pos
InsertAt(list, pos, x) ==
    SubSeq(list, 1, pos - 1) \o <<x>> \o SubSeq(list, pos, Len(list))

\* a Crawler that is constructed and never used
CrawlUnused ==
    /\ CrawlIdle
    /\ args = [startUrl |-> Url("bad", "", <<>>, FALSE), maxPages |-> 0,
               maxDepth |-> 0, options |-> [respectRobotsTxt |-> TRUE]]
    /\ web = NoSitemapWeb

ScoreInit ==
    /\ CrawlUnused
    /\ UrlIdle
    /\ ScanIdle
    /\ OthersIdle
    /\ bugs \in ScoreLists
    /\ score = NoScore
    /\ prevScore = NoScore
    /\ prioritized = <<>>
    /\ once = <<>>
    /\ twice = <<>>
    /\ stage = "none"

\* const score = this.calculateScore(uniqueBugs)
ApplyCalculateScore ==
    /\ stage = "none"
    /\ score' = calculateScore(bugs)
    /\ stage' = "scored"
    /\ UNCHANGED <<bugs, prevScore, prioritized, once, twice>>
    /\ UNCHANGED notBugVars

\* one more finding is reported, at any position of the list, and the list is
\* scored again
AddFinding ==
    /\ stage = "scored"
    /\ Len(bugs) < MaxBugs
    /\ \E kind \in ScoreKinds, pos \in 1..(Len(bugs) + 1) :
          /\ bugs' = InsertAt(bugs, pos, ScoreFinding(Len(bugs) + 1, kind))
          /\ score' = calculateScore(bugs')
    /\ prevScore' = score
    /\ stage' = "added"
    /\ UNCHANGED <<prioritized, once, twice>>
    /\ UNCHANGED notBugVars

\* const prioritizedBugs = this.addPriorityScores(uniqueBugs)
ApplyAddPriorityScores ==
    /\ stage \in {"scored", "added"}
    /\ prioritized' = addPriorityScores(bugs)
    /\ stage' = "prioritized"
    /\ UNCHANGED <<bugs, score, prevScore, once, twice>>
    /\ UNCHANGED notBugVars

ScoreNext ==
    \/ ApplyCalculateScore
    \/ AddFinding
    \/ ApplyAddPriorityScores

ScoreSpec == ScoreInit /\ [][ScoreNext]_vars

----------------------------------------------------------------------------
(* Applying calculateScore to the scoring scenarios *)
ScenarioCodes == ScoreCodes \cup {"LAYOUT_OVERFLOW", "SMALL_TARGET"}
FiveMajors ==
    {[i \in 1..5 |-> ScoreFinding(i, [code |-> cs[i], severity |-> "major"])] :
        cs \in [1..5 -> ScenarioCodes]}
OneCritical ==
    {<<ScoreFinding(1, [code |-> c, severity |-> "critical"])>> : c \in ScenarioCodes}
ScenarioLists == {<<>>} \cup OneCritical \cup FiveMajors

ScenarioInit ==
    /\ CrawlUnused
    /\ UrlIdle
    /\ ScanIdle
    /\ OthersIdle
    /\ bugs \in ScenarioLists
    /\ score = NoScore
    /\ prevScore = NoScore
    /\ prioritized = <<>>
    /\ once = <<>>
    /\ twice = <<>>
    /\ stage = "none"

ScenarioNext == ApplyCalculateScore

ScenarioSpec == ScenarioInit /\ [][ScenarioNext]_vars

----------------------------------------------------------------------------
(* Applying deduplicateBugs to bounded finding lists *)
DedupKinds ==
    {[code |-> "TYPO", message |-> <<"[Desktop]", " ", "a">>, selector |-> <<>>],
     [code |-> "TYPO", message |-> <<"[Mobile]", " ", "a">>, selector |-> <<>>],
     [code |-> "TYPO", message |-> <<"[Tablet]", " ", "a">>, selector |-> <<>>],
     [code |-> "TYPO", message |-> <<"a">>, selector |-> <<"s">>],
     [code |-> "TYPO", message |-> <<"PAD", "a", " ", "a">>, selector |-> <<>>],
     [code |-> "TYPO", message |-> <<"PAD", "a", " ", "b">>, selector |-> <<>>],
     [code |-> "LAYOUT_OVERFLOW", message |-> <<"a">>, selector |-> <<>>],
     [code |-> "TYPO", message |-> <<"b", "|">>, selector |-> <<>>],
     [code |-> "TYPO", message |-> <<"b">>, selector |-> <<"|">>]}
DedupFinding(id, kind) == Bug(id, kind.code, "minor", kind.message, kind.selector)
DedupLists ==
    {[i \in DOMAIN ks |-> DedupFinding(i, ks[i])] : ks \in SeqsUpTo(DedupKinds, MaxBugs)}

DedupInit ==
    /\ CrawlUnused
    /\ UrlIdle
    /\ ScanIdle
    /\ OthersIdle
    /\ bugs \in DedupLists
    /\ score = NoScore
    /\ prevScore = NoScore
    /\ prioritized = <<>>
    /\ once = <<>>
    /\ twice = <<>>
    /\ stage = "none"

\* const uniqueBugs = this.deduplicateBugs(allBugs)
ApplyDedup ==
    /\ stage = "none"
    /\ once' = deduplicateBugs(bugs)
    /\ stage' = "once"
    /\ UNCHANGED <<bugs, score, prevScore, prioritized, twice>>
    /\ UNCHANGED notBugVars

\* deduplicateBugs applied to its own output
ApplyDedupAgain ==
    /\ stage = "once"
    /\ twice' = deduplicateBugs(once)
    /\ stage' = "twice"
    /\ UNCHANGED <<bugs, score, prevScore, prioritized, once>>
    /\ UNCHANGED notBugVars

DedupNext ==
    \/ ApplyDedup
    \/ ApplyDedupAgain

DedupSpec == DedupInit /\ [][DedupNext]_vars

----------------------------------------------------------------------------
(* Applying normalizeUrl and shouldCrawl to bounded URLs *)

\* URLs for normalizeUrl: paths of "a" and empty segments (so "/a/", "/a//",
\* "//"), with and without a query string and a fragment
SlashPaths == UNION {[1..n -> {SegA, EmptySeg}] : n \in 1..MaxPathLen}
Queries == SeqsUpTo(0..2, MaxQuery)
NormalizeInputs ==
    {[url |-> UrlQ(parse, SiteOrigin, path, query, hash), baseOrigin |-> base,
      options |-> [respectRobotsTxt |-> TRUE]] :
        parse \in {"abs", "rel", "bad"}, path \in SlashPaths, query \in Queries,
        hash \in BOOLEAN, base \in {NoBase, SiteOrigin}}

\* URLs for shouldCrawl: a file name with one of the spellings of an
\* extension, at the root or below "/a/", on the site or on another origin
ExtSpellings ==
    {"", ".html", ".png", ".PNG", ".Png", ".css", ".Css", ".CSS",
     ".js", ".Js", ".JS", ".pdf", ".PDF", ".pDf"}
FilePaths ==
    {prefix \o <<Seg("f", ext)>> : prefix \in {<<>>, <<SegA>>}, ext \in ExtSpellings}
\* a RegExp that matches every pathname (/.*/), one that matches the files
\* at the root (/^\/[^\/]*$/), one that matches nothing the model uses
MatchAll == {LowerPath(path) : path \in FilePaths}
MatchRootFiles == {pathname \in MatchAll : Len(pathname) = 1}
MatchNone == {}
PolicyInputs ==
    {[respectRobotsTxt |-> TRUE],
     [allowedPathPatterns |-> <<MatchAll>>],
     [allowedPathPatterns |-> <<MatchNone, MatchRootFiles>>],
     [allowedPathPatterns |-> <<>>, excludedPathPatterns |-> <<MatchRootFiles>>],
     [allowedPathPatterns |-> <<MatchAll>>, excludedPathPatterns |-> <<MatchNone>>]}
ShouldCrawlInputs ==
    {[url |-> Url(parse, origin, path, FALSE), baseOrigin |-> SiteOrigin,
      options |-> options] :
        parse \in {"abs", "rel"}, origin \in {SiteOrigin, OtherOrigin},
        path \in FilePaths, options \in PolicyInputs}

UrlInit ==
    /\ CrawlUnused
    /\ BugsIdle
    /\ ScanIdle
    /\ OthersIdle
    /\ urlIn \in NormalizeInputs \cup ShouldCrawlInputs
    /\ normOnce = Null
    /\ normTwice = Null
    /\ crawlable = FALSE
    /\ urlStage = "none"

\* normalizeUrl(url, baseOrigin)
ApplyNormalizeUrl ==
    /\ urlStage = "none"
    /\ normOnce' = normalizeUrl(urlIn.url, urlIn.baseOrigin)
    /\ urlStage' = "once"
    /\ UNCHANGED <<urlIn, normTwice, crawlable>>
    /\ UNCHANGED notUrlVars

\* normalizeUrl applied to its own non-null result
ApplyNormalizeUrlAgain ==
    /\ urlStage = "once"
    /\ normOnce # Null
    /\ normTwice' = normalizeUrl(normOnce, urlIn.baseOrigin)
    /\ urlStage' = "twice"
    /\ UNCHANGED <<urlIn, normOnce, crawlable>>
    /\ UNCHANGED notUrlVars

\* shouldCrawl(url, baseOrigin, options)
ApplyShouldCrawl ==
    /\ urlStage = "none"
    /\ urlIn.baseOrigin # NoBase
    /\ urlIn.url.parse # "bad"
    /\ crawlable' = shouldCrawl(urlIn.url, urlIn.baseOrigin, urlIn.options)
    /\ urlStage' = "policy"
    /\ UNCHANGED <<urlIn, normOnce, normTwice>>
    /\ UNCHANGED notUrlVars

UrlNext ==
    \/ ApplyNormalizeUrl
    \/ ApplyNormalizeUrlAgain
    \/ ApplyShouldCrawl

UrlSpec == UrlInit /\ [][UrlNext]_vars

----------------------------------------------------------------------------
(* One call of Detector.scan *)
ScanConfigs ==
    {[checkLayout |-> l, checkInteraction |-> i, checkTypo |-> t,
      checkVisual |-> t, checkAccessibility |-> a, viewports |-> n] :
        l \in BOOLEAN, i \in BOOLEAN, t \in BOOLEAN, a \in BOOLEAN,
        n \in 1..MaxViewports}

ScanInit ==
    /\ CrawlUnused
    /\ BugsIdle
    /\ UrlIdle
    /\ scan \in {ScanState(config) : config \in ScanConfigs}
    /\ OthersIdle

\* this.browser = await chromium.launch({ headless: true })
Launch ==
    /\ scan.pc = "idle"
    /\ scan' = [scan EXCEPT !.pc = "viewport", !.browser = "open"]
    /\ UNCHANGED notScanVars

\* chromium.launch rejects
LaunchFails ==
    /\ scan.pc = "idle"
    /\ scan' = ScanThrows(scan, "launch")
    /\ UNCHANGED notScanVars

\* the for loop enters the next viewport and creates its context
OpenViewport ==
    /\ scan.pc = "viewport"
    /\ scan.vp <= scan.config.viewports
    /\ scan' = NewContext(scan)
    /\ UNCHANGED notScanVars

\* browser.newContext rejects
OpenViewportFails ==
    /\ scan.pc = "viewport"
    /\ scan.vp <= scan.config.viewports
    /\ scan' = ScanThrows(scan, "context")
    /\ UNCHANGED notScanVars

\* context.newPage() and page.goto(url) resolve
Navigate ==
    /\ scan.pc = "opened"
    /\ scan' = [scan EXCEPT !.pc = "loaded"]
    /\ UNCHANGED notScanVars

\* context.newPage() rejects, or page.goto rejects and navError is rethrown
NavigateFails ==
    /\ scan.pc = "opened"
    /\ scan' = ScanThrows(scan, "navigation")
    /\ UNCHANGED notScanVars

\* addInitScript, evaluate and the DOM size evaluate resolve; the screenshot
\* is taken inside its own try/catch
Inject ==
    /\ scan.pc = "loaded"
    /\ scan' = [scan EXCEPT !.pc = "checks", !.check = 1]
    /\ UNCHANGED notScanVars

\* page.addInitScript or page.evaluate rejects
InjectFails ==
    /\ scan.pc = "loaded"
    /\ scan' = ScanThrows(scan, "inject")
    /\ UNCHANGED notScanVars

\* the next check is switched off, or does not run on this viewport
SkipCheck ==
    /\ scan.pc = "checks"
    /\ scan.check <= Len(Plugins)
    /\ ~CheckEnabled(scan.config, scan.vp, Plugins[scan.check])
    /\ scan' = [scan EXCEPT !.check = @ + 1]
    /\ UNCHANGED notScanVars

\* the next check runs and resolves with its findings
CheckOk ==
    /\ scan.pc = "checks"
    /\ scan.check <= Len(Plugins)
    /\ CheckEnabled(scan.config, scan.vp, Plugins[scan.check])
    /\ scan' = CheckReturns(scan, Plugins[scan.check])
    /\ UNCHANGED notScanVars

\* the next check runs and throws
CheckFails ==
    /\ scan.pc = "checks"
    /\ scan.check <= Len(Plugins)
    /\ CheckEnabled(scan.config, scan.vp, Plugins[scan.check])
    /\ Cardinality(scan.threw) < MaxThrows
    /\ scan' = CheckThrows(scan, Plugins[scan.check])
    /\ UNCHANGED notScanVars

\* console errors are added, the enrichment pass runs behind .catch(), and
\* context.close() resolves
FinishViewport ==
    /\ scan.pc = "checks"
    /\ scan.check > Len(Plugins)
    /\ scan' = CloseContext(scan)
    /\ UNCHANGED notScanVars

\* context.close() rejects
FinishViewportFails ==
    /\ scan.pc = "checks"
    /\ scan.check > Len(Plugins)
    /\ scan' = ScanThrows(scan, "close")
    /\ UNCHANGED notScanVars

\* the for loop is over: post-processing, return, finally
ScanReturn ==
    /\ scan.pc = "viewport"
    /\ scan.vp > scan.config.viewports
    /\ scan' = ScanReturns(scan)
    /\ UNCHANGED notScanVars

ScanNext ==
    \/ Launch
    \/ LaunchFails
    \/ OpenViewport
    \/ OpenViewportFails
    \/ Navigate
    \/ NavigateFails
    \/ Inject
    \/ InjectFails
    \/ SkipCheck
    \/ CheckOk
    \/ CheckFails
    \/ FinishViewport
    \/ FinishViewportFails
    \/ ScanReturn

ScanSpec == ScanInit /\ [][ScanNext]_vars

----------------------------------------------------------------------------
(* Properties of Crawler.crawl *)

UrlsOf(entries) == {entries[i].url : i \in DOMAIN entries}

\* C1: in every state of crawl(), and in the returned CrawlResult, the number
\* of successfully scanned pages is at most the configured maxPages.
C1_PagesWithinBudget ==
    /\ Len(results) <= crawlOptions.maxPages
    /\ (pc = "done" => crawlResult.pagesScanned <= crawlOptions.maxPages)

\* the budget is filled exactly although a scan failed and pages remain queued
C1_Witness ==
    /\ pc = "done"
    /\ crawlResult.pagesScanned = crawlOptions.maxPages
    /\ crawlResult.pagesScanned >= 1
    /\ Len(scheduled) > Len(results)
    /\ Len(queue) > 0

\* C2: every url that is visited, queued, handed to a scan or scanned is in
\* the discovered set, and the returned totalPagesFound >= pagesScanned.
C2_DiscoveredIsSuperset ==
    /\ visited \subseteq allDiscoveredUrls
    /\ UrlsOf(queue) \subseteq allDiscoveredUrls
    /\ UrlsOf(scheduled) \subseteq allDiscoveredUrls
    /\ UrlsOf(results) \subseteq allDiscoveredUrls
    /\ Len(results) <= Cardinality(allDiscoveredUrls)
    /\ (pc = "done" => crawlResult.totalPagesFound >= crawlResult.pagesScanned)

\* a finished crawl that scanned two pages and discovered more than it scanned
C2_Witness ==
    /\ pc = "done"
    /\ crawlResult.pagesScanned >= 2
    /\ crawlResult.totalPagesFound > crawlResult.pagesScanned

\* C3: each canonical url is enqueued, and handed to a scan, at most once;
\* every enqueued url is in the visited set; the visited set never shrinks.
C3_ScheduledAtMostOnce ==
    [][/\ visited \subseteq visited'
       /\ NoDup(enqueued')
       /\ NoDup(scheduled')
       /\ UrlsOf(enqueued') = visited'
       /\ \A i, j \in DOMAIN enqueued' :
             enqueued'[i].url = enqueued'[j].url => i = j]_vars

\* the sitemap named one canonical url twice (or named the start url) and the
\* crawl went on to scan at least two pages
C3_Witness ==
    /\ pc = "done"
    /\ Len(scheduled) >= 2
    /\ \E i \in DOMAIN sitemapUrls :
          LET n == normalizeUrl(sitemapUrls[i], SiteOrigin) IN
          /\ n \in visited
          /\ \/ n = enqueued[1].url
             \/ \E j \in DOMAIN sitemapUrls :
                   j # i /\ normalizeUrl(sitemapUrls[j], SiteOrigin) = n

\* C4: every frontier entry placed in a batch and handed to Detector.scan has
\* depth <= maxDepth, also when sitemap entries were enqueued at depth 1
\* under maxDepth = 0.
C4_BatchWithinMaxDepth ==
    /\ \A i \in DOMAIN batch : batch[i].depth <= crawlOptions.maxDepth
    /\ \A i \in DOMAIN scheduled : scheduled[i].depth <= crawlOptions.maxDepth

\* maxDepth = 0, the sitemap seeded depth-1 entries, and the crawl scanned the
\* start page and then dropped the seeded entries
C4_Witness ==
    /\ pc = "done"
    /\ crawlOptions.maxDepth = 0
    /\ \E i \in DOMAIN enqueued : enqueued[i].depth = 1
    /\ Len(scheduled) >= 1
    /\ exitReason = "emptybatch"

\* the successful results of a batch, in batch order
SuccessesOf(b, outcome) ==
    LET F[i \in 0..Len(b)] ==
            IF i = 0 THEN <<>>
            ELSE IF outcome[i] = "ok" THEN Append(F[i - 1], ScanResultOf(b[i]))
                 ELSE F[i - 1]
    IN F[Len(b)]

\* C5: once cancel() has been called no batch is started; a batch in flight is
\* left only when every scan of it has resolved, its successful results are
\* then appended to results, and the returned CrawlResult carries results.
C5_CancelLetsBatchFinish ==
    [][/\ (aborted /\ pc # "idle" => batchesStarted' = batchesStarted)
       /\ (pc = "scanning" =>
              /\ batch' = batch
              /\ (pc' # "scanning" =>
                     /\ \A i \in DOMAIN batch : batchResults[i] # "pending"
                     /\ results' = results \o SuccessesOf(batch, batchResults)))
       /\ (pc' = "done" => crawlResult'.results = results')]_vars

\* cancelled in flight: the batch's result was kept, the loop then stopped on
\* the abort check with pages still queued
C5_Witness ==
    /\ pc = "done"
    /\ cancelledInFlight
    /\ exitReason = "cancelled"
    /\ Len(results) >= 1
    /\ Len(queue) > 0

\* C6 as stated: a crawl cancelled while a batch is in flight returns
\* pagesScanned strictly below maxPages.
C6_CancelledBelowBudget ==
    (pc = "done" /\ cancelledInFlight) =>
        crawlResult.pagesScanned < crawlOptions.maxPages

\* C6 amended: a crawl cancelled while a batch is in flight returns
\* pagesScanned <= maxPages, and strictly less when the loop was left through
\* the cancellation check (pages still queued, budget not yet filled).
C6_CancelledWithinBudget ==
    (pc = "done" /\ cancelledInFlight) =>
        /\ crawlResult.pagesScanned <= crawlOptions.maxPages
        /\ (exitReason = "cancelled" =>
               crawlResult.pagesScanned < crawlOptions.maxPages)

\* cancelled in flight one page short of the budget, left through the
\* cancellation check
C6_Witness ==
    /\ pc = "done"
    /\ cancelledInFlight
    /\ exitReason = "cancelled"
    /\ crawlResult.pagesScanned >= 1
    /\ crawlResult.pagesScanned = crawlOptions.maxPages - 1

----------------------------------------------------------------------------
(* Properties of the scoring and deduplication functions *)

\* C7: for every list of findings calculateScore returns an integer in [0,100].
C7_ScoreInRange ==
    score # NoScore => score \in 0..100

\* three critical findings of three distinct codes were scored: 100 - 36
C7_Witness ==
    /\ stage = "scored"
    /\ Len(bugs) >= 3
    /\ score = 64

\* C8: adding a finding to a list, at any position, never raises the score.
C8_AddNeverRaisesScore ==
    stage = "added" => score <= prevScore

\* C9: every priorityScore assigned by addPriorityScores is an integer in
\* [0,100], also for a single critical NAV_SERVER_ERROR (raw value 160) and
\* for findings that share a code.
C9_PriorityInRange ==
    \A i \in DOMAIN prioritized : prioritized[i].priorityScore \in 0..100

\* a lone critical NAV_SERVER_ERROR was capped at 100 next to two findings
\* that share a code
C9_Witness ==
    /\ stage = "prioritized"
    /\ \E i \in DOMAIN prioritized :
          /\ prioritized[i].code = "NAV_SERVER_ERROR"
          /\ prioritized[i].severity = "critical"
          /\ codeFrequency(bugs, "NAV_SERVER_ERROR") = 1
          /\ prioritized[i].priorityScore = 100
    /\ \E j \in DOMAIN prioritized :
          /\ codeFrequency(bugs, prioritized[j].code) = 2
          /\ prioritized[j].priorityScore < 100

\* C10: deduplicateBugs applied to its own output returns the same findings
\* in the same order.
C10_DedupIdempotent ==
    stage = "twice" => twice = once

\* the first pass dropped a duplicate and kept at least two findings
C10_Witness ==
    /\ stage = "twice"
    /\ Len(once) < Len(bugs)
    /\ Len(once) >= 2

----------------------------------------------------------------------------
(* Properties of the URL utilities *)

\* C11: normalizeUrl is idempotent: normalizing a non-null result of
\* normalizeUrl again returns it unchanged, also for paths that end in more
\* than one slash and for URLs with a query string.
C11_NormalizeIdempotent ==
    urlStage = "twice" => normTwice = normOnce

\* the spellings of .png, .css, .js and .pdf
RejectedSpellings == ExtSpellings \ {"", ".html"}
EndsInRejectedExtension(url) == Last(url.path).ext \in RejectedSpellings
CrossOrigin(url, baseOrigin) == url.parse = "abs" /\ url.origin # baseOrigin
MatchedBySomePattern(url, patterns) ==
    \E k \in DOMAIN patterns :
       \E pathname \in patterns[k] :
          /\ Len(pathname) = Len(url.path)
          /\ \A i \in DOMAIN pathname : pathname[i].stem = url.path[i].stem

\* C12: shouldCrawl returns false for every URL whose path ends in .png,
\* .css, .js or .pdf in any letter case and for every URL of another origin,
\* whatever allow and exclude patterns are configured.
C12_ResourcesAndForeignRejected ==
    (urlStage = "policy"
     /\ (EndsInRejectedExtension(urlIn.url)
         \/ CrossOrigin(urlIn.url, urlIn.baseOrigin)))
        => crawlable = FALSE

\* a same-origin URL spelled with capitals in its extension was rejected
\* although an allow pattern matches it
C12_Witness ==
    /\ urlStage = "policy"
    /\ ~CrossOrigin(urlIn.url, urlIn.baseOrigin)
    /\ Last(urlIn.url.path).ext \in {".PNG", ".Css", ".JS", ".pDf"}
    /\ "allowedPathPatterns" \in DOMAIN urlIn.options
    /\ MatchedBySomePattern(urlIn.url, urlIn.options.allowedPathPatterns)
    /\ crawlable = FALSE

----------------------------------------------------------------------------
(* Properties of the scoring scenarios *)
CodesOf(list) == {list[i].code : i \in DOMAIN list}
SameCode(list) == list \in FiveMajors /\ Cardinality(CodesOf(list)) = 1
DistinctCodes(list) == list \in FiveMajors /\ Cardinality(CodesOf(list)) = 5

\* C13: calculateScore returns exactly 100 for no finding, exactly 88 for
\* one critical finding, and a strictly higher score for five major
\* findings of one code than for five major findings of five distinct codes.
C13_ScoringScenarios ==
    stage = "scored" =>
        /\ (bugs = <<>> => score = 100)
        /\ (bugs \in OneCritical => score = 88)
        /\ (SameCode(bugs) =>
               \A other \in FiveMajors :
                  DistinctCodes(other) => score > calculateScore(other))

\* five major findings of one code were scored at 80, above the 70 of five
\* distinct codes
C13_Witness ==
    /\ stage = "scored"
    /\ SameCode(bugs)
    /\ score = 80
    /\ \E other \in FiveMajors : DistinctCodes(other) /\ calculateScore(other) = 70

----------------------------------------------------------------------------
(* Properties of sitemap seeding, failures and termination of a crawl *)

\* the frontier as crawl() sees it after the sitemap was read and before the
\* first batch is built
SeededFromIndex ==
    /\ web = IndexWeb
    /\ crawlOptions.includeSitemap
    /\ pc = "loop"
    /\ batchesStarted = 0
InQueueAt(url, depth) == Entry(url, depth) \in Range(queue)
CrawlablePages ==
    {normalizeUrl(u, SiteOrigin) : u \in
        {v \in IndexPages :
            shouldCrawl(normalizeUrl(v, SiteOrigin), SiteOrigin, crawlOptions)}}

\* C14 as stated: with a sitemap index of 3 child sitemaps of 10 crawlable
\* same-origin pages each, all 30 pages are in the queue at depth 1, visited
\* and discovered before the first batch is scanned.
C14_AllThirtyAtDepthOne ==
    SeededFromIndex =>
        \A u \in CrawlablePages :
            InQueueAt(u, 1) /\ u \in visited /\ u \in allDiscoveredUrls

\* C14 amended: all 30 pages are visited and discovered before the first
\* batch is scanned; each is in the queue at depth 1, except the start URL
\* when the sitemap lists it, which stays queued once, at depth 0.
C14_AllThirtySeeded ==
    SeededFromIndex =>
        /\ Cardinality(CrawlablePages) = 30
        /\ \A u \in CrawlablePages :
              /\ u \in visited
              /\ u \in allDiscoveredUrls
              /\ IF u = enqueued[1].url
                 THEN InQueueAt(u, 0) /\ ~InQueueAt(u, 1)
                 ELSE InQueueAt(u, 1)

\* the index and its 3 children were fetched and the 30 pages stand in the
\* queue behind a start URL that the sitemap does not list
C14_Witness ==
    /\ SeededFromIndex
    /\ Len(fetches) = 4
    /\ Len(sitemapUrls) = 30
    /\ Len(queue) = 31
    /\ \A i \in 2..31 : queue[i].depth = 1

\* C15: when the start URL cannot be normalized, crawl() throws "Invalid
\* start URL" before any network activity: no sitemap is fetched, no scan is
\* started, no progress is reported and no CrawlResult is returned.
C15_InvalidStartFailsFast ==
    (normalizeUrl(args.startUrl, NoBase) = Null /\ pc # "idle") =>
        /\ pc = "failed"
        /\ fetches = <<>>
        /\ scheduled = <<>>
        /\ batchesStarted = 0
        /\ progress = <<>>
        /\ crawlResult = NoResult

\* a crawl with sitemap discovery left enabled failed on a malformed start
\* URL without fetching anything
C15_Witness ==
    /\ pc = "failed"
    /\ args.startUrl.parse = "bad"
    /\ crawlOptions.includeSitemap
    /\ fetches = <<>>
    /\ progress = <<>>

\* the URLs of the batch in flight whose scan came out as outcome
BatchUrls(outcome) ==
    {batch[i].url : i \in {j \in DOMAIN batch : batchResults[j] = outcome}}

\* C16: a failed scan is confined to its URL: crawl() does not throw once
\* scans have started, the batch is left towards the next loop iteration,
\* every successful scan of the batch adds its PageResult, a failed one adds
\* none, and what is queued stays queued for later batches.
C16_ScanFailureConfined ==
    [][/\ (pc' = "failed" => pc \in {"idle", "failed"})
       /\ ((pc = "scanning" /\ pc' # "scanning") =>
              /\ pc' \in {"loop", "sleep"}
              /\ Len(results') = Len(results) + Cardinality(BatchUrls("ok"))
              /\ UrlsOf(results') = UrlsOf(results) \cup BatchUrls("ok")
              /\ BatchUrls("fail") \cap UrlsOf(results') = {}
              /\ SubSeq(queue', 1, Len(queue)) = queue)]_vars

\* the first scan of a batch failed, the second one contributed its result,
\* and a later batch was started
C16_Witness ==
    /\ batchesStarted >= 2
    /\ Len(scheduled) >= 3
    /\ scheduled[1].url \notin UrlsOf(results)
    /\ scheduled[2].url \in UrlsOf(results)
    /\ pc = "scanning"

\* the depth at which the page of a PageResult was scheduled
DepthOf(url) ==
    (CHOOSE e \in Range(scheduled) : e.url = url).depth

\* C19: a page scanned successfully at a depth below maxDepth hands its
\* same-origin links to the crawl: the PageResult's links list carries them
\* and every one of them that passes shouldCrawl has been enqueued (and so
\* is marked visited) once the batch is processed.
C19_LinksHarvested ==
    \A i \in DOMAIN results :
       LET page == results[i].url IN
       DepthOf(page) < crawlOptions.maxDepth =>
          \A k \in DOMAIN PageLinks(page) :
             LET link == PageLinks(page)[k]
                 normalizedLink == normalizeUrl(link, page.origin)
             IN shouldCrawl(normalizedLink, page.origin, crawlOptions) =>
                   /\ link \in Range(results[i].links)
                   /\ normalizedLink \in visited

----------------------------------------------------------------------------
(* Properties of Detector.scan *)
EnabledChecks(config) ==
    {<<v, Plugins[k]>> : v \in 1..config.viewports, k \in DOMAIN Plugins}
        \cap {vc \in (1..config.viewports) \X Range(Plugins) :
                 CheckEnabled(config, vc[1], vc[2])}

\* C17: an exception of an enabled check contributes no finding for that
\* check and viewport and never aborts the scan: scan() only throws for a
\* failing launch, context, navigation, injection or close, and when it
\* returns every enabled check has run on every viewport it applies to and
\* the findings are those of the checks that did not throw.
C17_PluginFailureIsolated ==
    /\ scan.threw \cap scan.allBugs = {}
    /\ scan.pc = "thrown" =>
          scan.error \in {"launch", "context", "navigation", "inject", "close"}
    /\ scan.pc = "returned" =>
          /\ scan.ran = EnabledChecks(scan.config)
          /\ scan.allBugs = scan.ran \ scan.threw

\* the layout check threw on the first viewport, the checks after it and
\* the second viewport still ran, and the scan returned their findings
C17_Witness ==
    /\ scan.pc = "returned"
    /\ <<1, "layout">> \in scan.threw
    /\ <<1, "navigation">> \in scan.allBugs
    /\ <<2, "visual">> \in scan.allBugs

\* C18: every context scan() acquires is released on every exit path: at
\* most the context of the current viewport is open, none is open between
\* two viewports, and none (nor the browser) is open once scan() has
\* returned or thrown.
C18_ContextsReleased ==
    /\ scan.contexts \subseteq {scan.vp}
    /\ scan.pc = "viewport" => scan.contexts = {}
    /\ scan.pc \in {"returned", "thrown"} =>
          scan.contexts = {} /\ scan.browser # "open"

\* navigation failed on the second viewport: its context was acquired and
\* was released by the finally block
C18_Witness ==
    /\ scan.pc = "thrown"
    /\ scan.error = "navigation"
    /\ scan.acquired = {1, 2}
    /\ scan.contexts = {}
    /\ scan.browser = "closed"

----------------------------------------------------------------------------
(* Properties of deduplication across viewports *)
\* the labels limitAndTagBugs prefixes, one per default viewport
ViewportTags == {"[Desktop]", "[Tablet]", "[Mobile]"}

\* m1 and m2 are tagged messages that differ only in the viewport tag
SameDefectAcrossViewports(m1, m2) ==
    /\ m1 # <<>> /\ m2 # <<>>
    /\ Head(m1) \in ViewportTags
    /\ Head(m2) \in ViewportTags
    /\ Head(m1) # Head(m2)
    /\ Tail(m1) = Tail(m2)

\* C21: two findings with equal code and selector whose tagged messages
\* differ only in the viewport tag, for any of the viewport labels, have the
\* same dedup key, so deduplicateBugs never keeps both of them.
C21_ViewportsCollapsed ==
    stage = "once" =>
       /\ \A b1, b2 \in Range(bugs) :
             (/\ b1.code = b2.code
              /\ b1.selector = b2.selector
              /\ SameDefectAcrossViewports(b1.message, b2.message))
                => DedupKey(b1) = DedupKey(b2)
       /\ \A i, j \in DOMAIN once :
             (/\ i < j
              /\ once[i].code = once[j].code
              /\ once[i].selector = once[j].selector)
                => ~SameDefectAcrossViewports(once[i].message, once[j].message)

----------------------------------------------------------------------------
(* Properties of the diminishing factor and of the order of the findings *)
\* the number of findings before position i that have the code of list[i]
PriorFindingsOfCode(list, i) ==
    Cardinality({j \in 1..(i - 1) : list[j].code = list[i].code})

\* C22: a finding with n earlier findings of its code is charged, before
\* the per-code ceiling, its base penalty times 1 / (1 + n * 0.3), that is
\* (in thirteenths) a penalty p with p * (10 + 3n) = base * 130; the third
\* finding of a code is charged base / 1.6.
C22_DiscountByPriorCount ==
    stage = "scored" =>
       \A i \in DOMAIN bugs :
           LET n == PriorFindingsOfCode(bugs, i)
           IN DiminishedPenalty(bugs[i].severity, n > 0) * (10 + 3 * n)
                 = basePenalty(bugs[i].severity) * 10 * PenaltyUnit

\* the findings of list in the order given by the permutation p of its indices
Reordered(list, p) == [i \in DOMAIN list |-> list[p[i]]]

\* C23: the score depends only on the collection of findings: every
\* permutation of the scored list, also one that mixes severities within a
\* code, has the same score.
C23_ScoreIgnoresOrder ==
    stage = "scored" =>
       \A p \in Permutations(DOMAIN bugs) :
           calculateScore(Reordered(bugs, p)) = score

----------------------------------------------------------------------------
(* Scoring long finding lists: enough findings to reach the global cap *)
MaxGroups == 3
MaxPerCode == 3
MaxDistinct == 7

CapCode(k) == "K" \o ToString(k)

\* count findings of one code and one severity
CapGroup(k, g) == [i \in 1..g.count |-> [code |-> CapCode(k), severity |-> g.severity]]

RECURSIVE CapConcat(_, _)
CapConcat(groups, k) ==
    IF k > Len(groups) THEN <<>>
    ELSE CapGroup(k, groups[k]) \o CapConcat(groups, k + 1)

\* the findings of a page, numbered in list order
CapFindings(kinds) ==
    [i \in DOMAIN kinds |-> Bug(i, kinds[i].code, kinds[i].severity, <<"a">>, <<>>)]

\* up to MaxGroups codes with up to MaxPerCode findings each, and up to
\* MaxDistinct findings of one severity with a code of their own each
CapLists ==
    {CapFindings(CapConcat(gs, 1)) :
        gs \in SeqsUpTo([severity : Severities, count : 1..MaxPerCode], MaxGroups)}
    \cup
    {CapFindings([i \in 1..n |-> [code |-> CapCode(i), severity |-> sev]]) :
        n \in 0..MaxDistinct, sev \in Severities}

CapInit ==
    /\ CrawlUnused
    /\ UrlIdle
    /\ ScanIdle
    /\ OthersIdle
    /\ bugs \in CapLists
    /\ score = NoScore
    /\ prevScore = NoScore
    /\ prioritized = <<>>
    /\ once = <<>>
    /\ twice = <<>>
    /\ stage = "none"

\* one more finding, of a code of the list or of a new one and of any
\* severity, is appended and the list is scored again
CapExtend ==
    /\ stage = "scored"
    /\ \E k \in 1..(Cardinality(CodesOf(bugs)) + 1), sev \in Severities :
          /\ bugs' = Append(bugs, Bug(Len(bugs) + 1, CapCode(k), sev, <<"a">>, <<>>))
          /\ score' = calculateScore(bugs')
    /\ prevScore' = score
    /\ stage' = "extended"
    /\ UNCHANGED <<prioritized, once, twice>>
    /\ UNCHANGED notBugVars

CapNext ==
    \/ ApplyCalculateScore
    \/ CapExtend

CapSpec == CapInit /\ [][CapNext]_vars

\* the grand total of the per-code penalties of list, in thirteenths
TotalPenalty(list) == PenaltyLoop(list, 1, [c \in {} |-> 0], 0)

\* C24: the penalty calculateScore subtracts is at most 70: whatever the
\* findings, their number, codes and severities, the score of a page is
\* never below 30.
C24_ScoreAtLeastThirty ==
    score # NoScore => (100 - score <= globalMaxPenalty /\ score >= 30)

\* a list whose per-code penalties add up to more than 70 was scored 30
C24_Witness ==
    /\ stage \in {"scored", "extended"}
    /\ TotalPenalty(bugs) > globalMaxPenalty * PenaltyUnit
    /\ score = 30

----------------------------------------------------------------------------
(* Properties of the batches of a crawl *)
\* the scans of the current batch that have not resolved yet
InFlight == {i \in DOMAIN batchResults : batchResults[i] = "pending"}

\* the configured limit: 2 when the option is unset or 0
ConfiguredConcurrency ==
    IF crawlOptions.concurrency = 0 THEN 2 ELSE crawlOptions.concurrency

\* C25: at every point of a crawl at most `concurrency` scans are in flight
\* (2 when the option is unset or 0): a batch holds at most that many URLs,
\* and a new batch is started only when every scan of the previous one has
\* resolved, by success or by failure.
C25_InFlightWithinConcurrency ==
    /\ [](Cardinality(InFlight) <= ConfiguredConcurrency)
    /\ [](Len(batch) <= ConfiguredConcurrency)
    /\ [][batchesStarted' # batchesStarted => InFlight = {}]_vars

\* a second batch is being scanned after a full first batch of two, one of
\* whose scans had failed
C25_Witness ==
    /\ pc = "scanning"
    /\ batchesStarted = 2
    /\ Len(scheduled) = 3
    /\ ConfiguredConcurrency = 2
    /\ Len(results) = 1
    /\ InFlight # {}

\* the depths of a sequence of frontier entries never decrease
DepthSorted(entries) ==
    \A i, j \in DOMAIN entries : i < j => entries[i].depth <= entries[j].depth

\* C27: pages are discovered breadth-first: the start URL enters the queue
\* at depth 0 and every later entry at depth 1 or more, the queue is always
\* in non-decreasing depth order, and so is the order in which entries are
\* placed in batches: no entry is placed in a batch while a shallower one
\* is still queued.
C27_BreadthFirst ==
    /\ DepthSorted(queue)
    /\ DepthSorted(enqueued)
    /\ DepthSorted(scheduled)
    /\ \A i \in DOMAIN enqueued : (i = 1) <=> (enqueued[i].depth = 0)
    /\ \A i \in DOMAIN scheduled, j \in DOMAIN queue :
          scheduled[i].depth <= queue[j].depth

\* the start page was scanned in a batch of its own, and a sitemap seed of
\* depth 1 is being scanned while another one is still queued
C27_Witness ==
    /\ pc = "scanning"
    /\ batchesStarted = 2
    /\ Len(scheduled) = 2
    /\ scheduled[1].depth = 0
    /\ scheduled[2].depth = 1
    /\ Len(queue) = 1
    /\ queue[1].depth = 1

\* C30: the scans one crawl makes, successful and failed together, never
\* number more than maxPages: a failed scan consumes page budget too.
C30_ScansWithinBudget ==
    Len(scheduled) <= crawlOptions.maxPages

----------------------------------------------------------------------------
(* Properties of the findings Detector.scan merges *)
\* the finding carries the label of one of the scanned viewports at the head
\* of its message and in its location description
ViewportTagged(b, config) ==
    \E vp \in 1..config.viewports :
        /\ b.message # <<>>
        /\ Head(b.message) = "[" \o ViewportLabel(vp) \o "]"
        /\ \E k \in DOMAIN b.locationDescription :
              b.locationDescription[k] \in
                  {"(" \o ViewportLabel(vp) \o ")", "Viewport: " \o ViewportLabel(vp)}

\* C28: every finding of every check that ran is in the merged list only
\* with the viewport label in its message and location description and with
\* a page URL; this holds for the accessibility check too.
C28_FindingsTagged ==
    \A b \in scan.merged :
        /\ ViewportTagged(b, scan.config)
        /\ b.pageUrl # NoPageUrl

----------------------------------------------------------------------------
(* parseSitemap step by step (crawler.ts:893-948): every call fetches its   *)
(* URL; a call that reads an index keeps a frame on the call chain while it *)
(* awaits the calls for its nested sitemaps, one after the other.           *)
MaxNested == 2
MaxStack == 3

Frame(url, nested) == [url |-> url, nested |-> nested]

\* the call chain with one more frame.  Only the innermost MaxStack frames
\* are kept: a site of the inputs has two index documents, so a chain longer
\* than that holds one of them twice and never returns to its oldest frame.
PushFrame(stack, frame) ==
    IF Len(stack) < MaxStack THEN Append(stack, frame)
    ELSE Append(Tail(stack), frame)

\* parseSitemap(sitemapUrl) is called on top of the call chain of ps: the
\* URL is fetched (oddFetches is the parity of the number of fetches so
\* far); an index opens a frame for nestedSitemaps.slice(0, 5), anything
\* else returns at once
EnterSitemap(ps, site, sitemapUrl) ==
    LET isIndex == sitemapUrl \in DOMAIN site /\ site[sitemapUrl].kind = "index"
        stack == IF isIndex
                 THEN PushFrame(ps.stack,
                                Frame(sitemapUrl, NestedSlice(site[sitemapUrl].locs)))
                 ELSE ps.stack
    IN [ps EXCEPT !.fetching = sitemapUrl,
                  !.oddFetches = ~@,
                  !.stack = stack,
                  !.pc = IF stack = <<>> THEN "done" ELSE "parsing"]

\* the top call takes the next nested sitemap off its list
NextNested(ps) ==
    [ps EXCEPT !.stack[Len(ps.stack)].nested = Tail(@)]

\* the for loop of the top call is over and the call returns
ReturnFromSitemap(ps) ==
    [ps EXCEPT !.stack = Front(@),
               !.pc = IF Len(ps.stack) = 1 THEN "done" ELSE "parsing"]

(* Sites whose sitemap.xml and sitemap-1.xml are indexes listing up to      *)
(* MaxNested of sitemap.xml, sitemap-1.xml and the plain sitemap-2.xml      *)
GraphNodes == {SiteSitemap, ChildSitemap(1), ChildSitemap(2)}
GraphWeb(rootLocs, childLocs) ==
    [u \in GraphNodes |->
        CASE u = SiteSitemap -> SitemapDoc("index", rootLocs)
          [] u = ChildSitemap(1) -> SitemapDoc("index", childLocs)
          [] OTHER -> SitemapDoc("urlset", <<Url("abs", SiteOrigin, <<SegA>>, FALSE)>>)]
GraphWebs ==
    {GraphWeb(r, c) : r \in SeqsUpTo(GraphNodes, MaxNested),
                      c \in SeqsUpTo(GraphNodes, MaxNested)}
ParseWebs == GraphWebs \cup {NoSitemapWeb, WideIndexWeb}

ParseInit ==
    /\ CrawlIdle
    /\ args = [startUrl |-> Url("bad", "", <<>>, FALSE), maxPages |-> 0,
               maxDepth |-> 0, options |-> [respectRobotsTxt |-> TRUE]]
    /\ web \in ParseWebs
    /\ BugsIdle
    /\ UrlIdle
    /\ ScanIdle
    /\ InstanceIdle
    /\ parser = ParserState(SiteSitemap)

\* parseSitemap(sitemapUrl) is called by crawl()
ParseCall ==
    /\ parser.pc = "idle"
    /\ parser' = EnterSitemap(parser, web, parser.call)
    /\ UNCHANGED notParserVars

\* const nestedUrls = await parseSitemap(nestedUrl)
ParseNestedCall ==
    /\ parser.pc = "parsing"
    /\ Last(parser.stack).nested # <<>>
    /\ parser' = EnterSitemap(NextNested(parser), web, Head(Last(parser.stack).nested))
    /\ UNCHANGED notParserVars

\* return urls, out of a call that read an index
ParseReturn ==
    /\ parser.pc = "parsing"
    /\ Last(parser.stack).nested = <<>>
    /\ parser' = ReturnFromSitemap(parser)
    /\ UNCHANGED notParserVars

ParseNext ==
    \/ ParseCall
    \/ ParseNestedCall
    \/ ParseReturn

\* fetch() settles and every awaited call is resumed
ParseSpec == ParseInit /\ [][ParseNext]_vars /\ WF_vars(ParseNext)

\* C26: parseSitemap terminates on every sitemap graph, also when an index
\* lists itself or when indexes list one another: the outermost call
\* returns after finitely many fetches.
C26_ParseSitemapTerminates ==
    <>(parser.pc = "done")

----------------------------------------------------------------------------
(* One Crawler object on which crawl() is called more than once.  The       *)
(* controllers are numbered: 0 is the one of the constructor, k the one     *)
(* the k-th crawl() call creates.  Each call has its own queue and loop     *)
(* (they are locals of crawl()); this.abortSignal is shared.  A batch is    *)
(* one page here.                                                           *)
MaxCrawls == 2
MaxQueue == 2

\* the locals of one crawl() call: pages left in its queue, batches started;
\* cancelled records that cancel() was called while the call was in flight,
\* lateBatches counts the batches the call started after that
CrawlRun(pages) ==
    [pc |-> "loop", queue |-> pages, batches |-> 0, cancelled |-> FALSE,
     lateBatches |-> 0]

\* this.abortSignal?.signal.aborted, as read at this moment
SignalAborted(crawler) == crawler.abortSignal \in crawler.aborted

\* crawl(): this.abortSignal = new AbortController() (crawler.ts:52), then
\* the setup up to the main loop
NewCrawl(crawler, pages) ==
    [crawler EXCEPT !.abortSignal = Len(crawler.runs) + 1,
                    !.runs = Append(@, CrawlRun(pages))]

\* cancel(): this.abortSignal?.abort() (crawler.ts:36-38)
AbortCurrent(crawler) ==
    [crawler EXCEPT !.aborted = @ \cup {crawler.abortSignal},
                    !.runs = [k \in DOMAIN crawler.runs |->
                                 IF crawler.runs[k].pc # "done"
                                 THEN [crawler.runs[k] EXCEPT !.cancelled = TRUE]
                                 ELSE crawler.runs[k]]]

InstanceInit ==
    /\ CrawlUnused
    /\ BugsIdle
    /\ UrlIdle
    /\ ScanIdle
    /\ ParserIdle
    /\ instance = NewCrawler

\* crawler.crawl(...) is called, possibly while an earlier call is awaiting
CrawlCalled ==
    /\ Len(instance.runs) < MaxCrawls
    /\ \E pages \in 1..MaxQueue : instance' = NewCrawl(instance, pages)
    /\ UNCHANGED notInstanceVars

\* crawler.cancel() is called
CancelCalled ==
    /\ instance' = AbortCurrent(instance)
    /\ UNCHANGED notInstanceVars

\* the while condition of a call fails: its queue is empty
RunExhausted ==
    /\ \E k \in DOMAIN instance.runs :
          /\ instance.runs[k].pc = "loop"
          /\ instance.runs[k].queue = 0
          /\ instance' = [instance EXCEPT !.runs[k].pc = "done"]
    /\ UNCHANGED notInstanceVars

\* a call finds the abort signal set at the top of its loop and breaks
RunCancelled ==
    /\ \E k \in DOMAIN instance.runs :
          /\ instance.runs[k].pc = "loop"
          /\ instance.runs[k].queue > 0
          /\ AbortCheck(SignalAborted(instance))
          /\ instance' = [instance EXCEPT !.runs[k].pc = "done"]
    /\ UNCHANGED notInstanceVars

\* a call finds the abort signal clear and starts its next batch
RunStartBatch ==
    /\ \E k \in DOMAIN instance.runs :
          /\ instance.runs[k].pc = "loop"
          /\ instance.runs[k].queue > 0
          /\ ~AbortCheck(SignalAborted(instance))
          /\ instance' = [instance EXCEPT !.runs[k].pc = "scanning",
                                          !.runs[k].queue = @ - 1,
                                          !.runs[k].batches = @ + 1,
                                          !.runs[k].lateBatches =
                                              IF instance.runs[k].cancelled
                                              THEN @ + 1 ELSE @]
    /\ UNCHANGED notInstanceVars

\* the batch of a call resolves
RunBatchDone ==
    /\ \E k \in DOMAIN instance.runs :
          /\ instance.runs[k].pc = "scanning"
          /\ instance' = [instance EXCEPT !.runs[k].pc = "loop"]
    /\ UNCHANGED notInstanceVars

InstanceNext ==
    \/ CrawlCalled
    \/ CancelCalled
    \/ RunExhausted
    \/ RunCancelled
    \/ RunStartBatch
    \/ RunBatchDone

InstanceSpec == InstanceInit /\ [][InstanceNext]_vars

\* C29: a cancel() issued while a crawl is in flight is never lost: from
\* then on that crawl starts no batch, also when crawl() is called again on
\* the same Crawler before the crawl reaches its next batch boundary.
C29_CancelNeverLost ==
    \A k \in DOMAIN instance.runs : instance.runs[k].lateBatches = 0

====
